---- MODULE Spec2Model ----
(***************************************************************************)
(* A model of the chains emulator core: the address bus with its PPU port  *)
(* mirroring and OAM DMA (core/bus.py), the CPU work RAM and stack          *)
(* (memory/ram.py, memory/stack.py), the PPU register ports and scanline   *)
(* tick (core/ppu.py, memory/oam.py), the MPU interrupt entry and the      *)
(* instructions the checked programs use (core/mpu.py), and the frame      *)
(* scheduler loop (core/system.py).                                        *)
(*                                                                         *)
(* Every Python list of bytes (RAM.store, PPURAM.store, OAMRAM.store) is   *)
(* kept as a finite function holding only its non-zero cells: the lists    *)
(* are created zero-filled, a cell that is absent reads as 0, and a write  *)
(* of 0 removes the cell, so equal lists have equal representations.       *)
(***************************************************************************)
EXTENDS Integers, Sequences, FiniteSets, TLC

VARIABLES
    mpu,    \* MPU: _pc.reg, _a, _x, _y, _flags, _stack._sp
    ram,    \* MPU._ram.store (CPU address space, 0x10000 cells)
    ppu,    \* PPU: v, t, x, w, scanline, nmi_triggered and the port objects
    oam,    \* PPU._oam: addr, data, dma, latch and _oam_storage.store
    vram,   \* PPU._ram.store (PPU address space, 0x4000 cells)
    exc,    \* the exception that ended the last operation, "none" if none
    ret,    \* the value returned by the last bus read
    sys,    \* System.start: position in the frame loop
    obs     \* observers: counters the properties read, never the program

vars == <<mpu, ram, ppu, oam, vram, exc, ret, sys, obs>>

----------------------------------------------------------------------------
(* Bit arithmetic on Python integers.                                      *)

Pow2(n) == 2 ^ n

\* x >> n and x << n
Shr(x, n) == x \div Pow2(n)
Shl(x, n) == x * Pow2(n)

\* bit n of x (Python's & on a negative int is two's complement: floor div)
Bit(x, n) == (x \div Pow2(n)) % 2

RECURSIVE AndBits(_, _, _)
AndBits(a, b, n) ==
    IF n = 0 THEN 0
    ELSE (IF a % 2 = 1 /\ b % 2 = 1 THEN 1 ELSE 0)
         + 2 * AndBits(a \div 2, b \div 2, n - 1)

RECURSIVE OrBits(_, _, _)
OrBits(a, b, n) ==
    IF n = 0 THEN 0
    ELSE (IF a % 2 = 1 \/ b % 2 = 1 THEN 1 ELSE 0)
         + 2 * OrBits(a \div 2, b \div 2, n - 1)

RECURSIVE XorBits(_, _, _)
XorBits(a, b, n) ==
    IF n = 0 THEN 0
    ELSE (IF a % 2 # b % 2 THEN 1 ELSE 0)
         + 2 * XorBits(a \div 2, b \div 2, n - 1)

\* the value of e, computed once, handed to F: a statement's result that the
\* statements after it use
Bind(e, F(_)) == CHOOSE r \in {F(v) : v \in {e}} : TRUE

\* a & b, a | b, a ^ b for a, b in 0 .. 2^17 - 1
BitAnd(a, b) == CHOOSE r \in {AndBits(x, y, 17) : x \in {a}, y \in {b}} : TRUE
BitOr(a, b) == CHOOSE r \in {OrBits(x, y, 17) : x \in {a}, y \in {b}} : TRUE
BitXor(a, b) == CHOOSE r \in {XorBits(x, y, 17) : x \in {a}, y \in {b}} : TRUE

\* x & mask for a mask in 0 .. 2^17 - 1 and any integer x (two's complement)
Mask(x, mask) == BitAnd(x % Pow2(17), mask)

----------------------------------------------------------------------------
(* Byte lists.                                                             *)

EmptyStore == [k \in {} |-> 0]

\* store[n]
ListGet(store, n) == IF n \in DOMAIN store THEN store[n] ELSE 0

\* store[n] = d
ListSet(store, n, d) ==
    CHOOSE r \in
      {IF y = 0
       THEN [k \in (DOMAIN s) \ {x} |-> s[k]]
       ELSE [k \in (DOMAIN s) \cup {x} |-> IF k = x THEN y ELSE s[k]]
       : s \in {store}, x \in {n}, y \in {d}} : TRUE

\* sizes of the three lists: RAM(0xFFFF), PPURAM(0x3FFF), OAMRAM -> RAM(255)
RamLen == 65536
VramLen == 16384
OamLen == 256

----------------------------------------------------------------------------
(* The machine: the objects System wires together, as one record the       *)
(* operations below transform.                                             *)

Machine == [mpu |-> mpu, ram |-> ram, ppu |-> ppu, oam |-> oam,
            vram |-> vram, exc |-> exc]

\* FlagRegister.__init__
FlagsInit == [sign |-> 0, overflow |-> 0, break_ |-> 0, decimal |-> 0,
              interrupt |-> 0, zero |-> 0, carry |-> 0]

\* MPU.__init__: ProgramCounter(), registers, Stack(ram, origin = 0x1FF)
MpuInit == [pc |-> 0, a |-> 0, x |-> 0, y |-> 0, flags |-> FlagsInit,
            sp |-> 511]

\* PPUCtrl.__init__
PPUCtrlInit == [nmi |-> 0, ppu |-> 0, height |-> 0, bg_select |-> 0,
                sprite_select |-> 0, inc_mode |-> 0,
                nametable_select_hi |-> 0, nametable_select_lo |-> 0]

\* PPUMask.__init__
PPUMaskInit == [blue |-> 0, green |-> 0, red |-> 0, sprite_enable |-> 0,
                bg_enable |-> 0, sprite_left_col |-> 0, bg_left_col |-> 0,
                greyscale |-> 0]

\* PPUStatus.__init__
PPUStatusInit == [vblank |-> 0, sprite_0_hit |-> 0, sprite_overflow |-> 0]

\* PPU.__init__, with PPUScroll.data and PPUAddressData.data, data_buffer
PpuInit == [v |-> 0, t |-> 0, x |-> 0, w |-> FALSE, scanline |-> 0,
            nmi_triggered |-> FALSE,
            ctrl |-> PPUCtrlInit, mask |-> PPUMaskInit,
            status |-> PPUStatusInit,
            scroll_data |-> 0, addr_data |-> 0, data_buffer |-> 0]

\* OAM.__init__
OamInit == [addr |-> 0, data |-> 0, dma |-> 0, latch |-> FALSE,
            store |-> EmptyStore]

\* a machine that raised e: the operation stops where it is
Raise(m, e) == [m EXCEPT !.exc = e]

----------------------------------------------------------------------------
(* memory/ram.py                                                           *)

\* RAM._mirror_map: the first test is loc <= 0x07FFF, so the three mirror
\* branches below it are never taken for an address under 0x8000
RAM_mirror_map(loc) ==
    IF loc >= 0 /\ loc <= 32767 THEN loc
    ELSE IF loc >= 2048 /\ loc <= 4095 THEN loc - 2048
    ELSE IF loc >= 4096 /\ loc <= 6143 THEN loc - 4096
    ELSE IF loc >= 6144 /\ loc <= 8191 THEN loc - 6144
    ELSE loc

\* RAM.read on the CPU RAM (the index is below RamLen: no IndexError)
RAM_read(m, loc) == ListGet(m.ram, RAM_mirror_map(Mask(loc, 65535)))

\* RAM.write on the CPU RAM
RAM_write(m, loc, data) ==
    [m EXCEPT !.ram = ListSet(@, RAM_mirror_map(Mask(loc, 65535)), data)]

----------------------------------------------------------------------------
(* core/mpu.py: the MPU as a bus member                                    *)

\* MPU.read: self._ram.store[loc % 0xFFFF]
MPU_read(m, loc) == [m |-> m, val |-> ListGet(m.ram, loc % 65535)]

\* MPU.write: self._ram.store[loc % 0xFFFF] = data
MPU_write(m, loc, data) == [m EXCEPT !.ram = ListSet(@, loc % 65535, data)]

----------------------------------------------------------------------------
(* memory/oam.py                                                           *)

OAM_ADDR == 8195
OAM_DATA == 8196
OAM_DMA == 16404

\* OAMRAM.write: self.store[loc] = data, an IndexError past the 256 cells
OAMRAM_write(m, loc, data) ==
    IF loc >= OamLen THEN Raise(m, "IndexError")
    ELSE [m EXCEPT !.oam.store = ListSet(@, loc, data)]

\* OAMAttributes.__init__: the fields of an attribute byte
OAMAttributes(data) ==
    [flip_vert |-> Shr(BitAnd(data, 128), 7),
     flip_horz |-> Shr(BitAnd(data, 64), 6),
     priority |-> Shr(BitAnd(data, 32), 5),
     palette |-> BitAnd(data, 3)]

\* OAMRAM.read: the decoded entry of sprite loc
OAMRAM_read(m, loc) ==
    [y |-> ListGet(m.oam.store, loc * 4),
     tile_num |-> ListGet(m.oam.store, loc * 4 + 1),
     attributes |-> OAMAttributes(ListGet(m.oam.store, loc * 4 + 2)),
     x |-> ListGet(m.oam.store, loc * 4 + 3)]

\* OAM.read
OAM_read(m, loc) ==
    IF loc = OAM_ADDR THEN [m |-> m, val |-> 0]
    ELSE IF loc = OAM_DATA
         THEN IF m.oam.addr >= OamLen
              THEN [m |-> Raise(m, "IndexError"), val |-> 0]
              ELSE [m |-> m, val |-> ListGet(m.oam.store, m.oam.addr)]
    ELSE IF loc = OAM_DMA THEN [m |-> m, val |-> m.oam.dma]
    ELSE [m |-> m, val |-> 0]

\* OAM.write
OAM_write(m, loc, data) ==
    LET m0 == [m EXCEPT !.oam.latch = FALSE] IN
    IF loc = OAM_ADDR THEN [m0 EXCEPT !.oam.addr = data]
    ELSE IF loc = OAM_DATA
         THEN Bind(OAMRAM_write(m0, m0.oam.addr, data), LAMBDA m1 :
              IF m1.exc # "none" THEN m1
              ELSE [m1 EXCEPT !.oam.addr = @ + 1])
    ELSE IF loc = OAM_DMA
         THEN [m0 EXCEPT !.oam.latch = TRUE, !.oam.dma = data]
    ELSE m0

----------------------------------------------------------------------------
(* memory/ppu_ram.py                                                       *)

\* PPURAM._mirror_nametables
PPURAM_mirror_nametables(loc) ==
    IF loc >= 12288 /\ loc <= 16127 THEN loc - 4096 ELSE loc

\* PPURAM.read: the IndexError is re-raised as a RuntimeError
PPURAM_read(m, loc) ==
    IF PPURAM_mirror_nametables(loc) >= VramLen
    THEN [m |-> Raise(m, "RuntimeError"), val |-> 0]
    ELSE [m |-> m, val |-> ListGet(m.vram, PPURAM_mirror_nametables(loc))]

\* PPURAM.write
PPURAM_write(m, loc, data) ==
    IF PPURAM_mirror_nametables(loc) >= VramLen
    THEN Raise(m, "RuntimeError")
    ELSE [m EXCEPT !.vram = ListSet(@, PPURAM_mirror_nametables(loc), data)]

----------------------------------------------------------------------------
(* core/ppu.py: the register ports                                         *)

PPUAddressData_ADDR == 8198
PPUAddressData_DATA == 8199

\* PPUCtrl.write
PPUCtrl_write(m, loc, data) ==
    [m EXCEPT !.ppu.ctrl =
        [nmi |-> Shr(BitAnd(data, 128), 7),
         ppu |-> Shr(BitAnd(data, 64), 6),
         height |-> Shr(BitAnd(data, 32), 5),
         bg_select |-> Shr(BitAnd(data, 16), 4),
         sprite_select |-> Shr(BitAnd(data, 8), 3),
         inc_mode |-> Shr(BitAnd(data, 4), 2),
         nametable_select_hi |-> Shr(BitAnd(BitAnd(data, 3), 2), 1),
         nametable_select_lo |-> BitAnd(BitAnd(data, 3), 1)]]

\* PPUCtrl.nametable_select
PPUCtrl_nametable_select(m) ==
    BitOr(Shl(m.ppu.ctrl.nametable_select_hi, 1),
          m.ppu.ctrl.nametable_select_lo)

\* PPUMask.write
PPUMask_write(m, loc, data) ==
    [m EXCEPT !.ppu.mask =
        [blue |-> Shr(BitAnd(data, 128), 7),
         green |-> Shr(BitAnd(data, 64), 6),
         red |-> Shr(BitAnd(data, 32), 5),
         sprite_enable |-> Shr(BitAnd(data, 16), 4),
         bg_enable |-> Shr(BitAnd(data, 8), 3),
         sprite_left_col |-> Shr(BitAnd(data, 4), 2),
         bg_left_col |-> Shr(BitAnd(data, 2), 1),
         greyscale |-> BitAnd(data, 1)]]

\* PPUMask.rendering_enabled: sprite_enable and bg_enable
PPUMask_rendering_enabled(m) ==
    m.ppu.mask.sprite_enable = 1 /\ m.ppu.mask.bg_enable = 1

\* PPUStatus.write
PPUStatus_write(m, loc, val) == m

\* PPUStatus.read with the register packed after vblank is cleared
PPUStatus_read_late(m, loc) ==
    LET m0 == [m EXCEPT !.ppu.w = FALSE, !.ppu.status.vblank = 0]
    IN  [m |-> m0,
         val |-> m0.ppu.status.vblank * 128
                 + m0.ppu.status.sprite_0_hit * 64
                 + m0.ppu.status.sprite_overflow * 32]

\* PPUStatus.read: the register is packed before vblank is cleared
PPUStatus_read(m, loc) ==
    LET m0 == [m EXCEPT !.ppu.w = FALSE]
        int_register == m0.ppu.status.vblank * 128
                        + m0.ppu.status.sprite_0_hit * 64
                        + m0.ppu.status.sprite_overflow * 32
    IN  [m |-> IF m0.ppu.status.vblank = 1
               THEN [m0 EXCEPT !.ppu.status.vblank = 0]
               ELSE m0,
         val |-> int_register]

\* PPUScroll.write with a toggle of its own: the shared one is left alone
PPUScroll_write_own_toggle(m, loc, data) ==
    [m EXCEPT !.ppu.scroll_data = data,
              !.ppu.t = BitAnd(data, 248),
              !.ppu.x = BitAnd(data, 7)]

\* PPUScroll.write
PPUScroll_write(m, loc, data) ==
    LET m0 == [m EXCEPT !.ppu.scroll_data = data] IN
    IF ~m0.ppu.w
    THEN [m0 EXCEPT !.ppu.t = BitAnd(data, 248),
                    !.ppu.x = BitAnd(data, 7),
                    !.ppu.w = TRUE]
    ELSE LET coarse_y == Shl(BitAnd(data, 248), 5)
             fine_y == Shl(BitAnd(data, 7), 12)
         IN  [m0 EXCEPT !.ppu.t = BitOr(@, BitOr(fine_y, coarse_y)),
                        !.ppu.w = FALSE]

\* PPUAddressData.increment_address
PPUAddressData_increment_address(m) ==
    IF m.ppu.ctrl.inc_mode = 0
    THEN [m EXCEPT !.ppu.v = BitAnd(@ + 1, 16383)]
    ELSE [m EXCEPT !.ppu.v = BitAnd(@ + 32, 16383)]

\* PPUAddressData.coarse_x_inc  (v & ~0x001F is v minus its low five bits)
PPUAddressData_coarse_x_inc(m) ==
    IF BitAnd(m.ppu.v, 31) = 31
    THEN [m EXCEPT !.ppu.v = BitXor(@ - BitAnd(@, 31), 1024)]
    ELSE [m EXCEPT !.ppu.v = @ + 1]

\* PPUAddressData.coarse_y_inc: in the y == 29 branch v is zeroed before the
\* nametable bit is toggled, and y stays 29 for the final merge
PPUAddressData_coarse_y_inc(m) ==
    IF BitAnd(m.ppu.v, 28672) # 28672
    THEN [m EXCEPT !.ppu.v = @ + 4096]
    ELSE LET v0 == m.ppu.v - BitAnd(m.ppu.v, 28672)
             y0 == Shr(BitAnd(v0, 992), 5)
             v1 == IF y0 = 29 THEN BitXor(0, 2048) ELSE v0
             y1 == IF y0 = 29 THEN y0 ELSE IF y0 = 31 THEN 0 ELSE y0 + 1
         IN  [m EXCEPT !.ppu.v = BitOr(v1 - BitAnd(v1, 992), Shl(y1, 5))]

\* PPUAddressData.increment_coarse_address
PPUAddressData_increment_coarse_address(m) ==
    Bind(PPUAddressData_coarse_x_inc(m), LAMBDA m1 :
    PPUAddressData_coarse_y_inc(m1))

\* PPUAddressData.read
PPUAddressData_read(m, loc) ==
    IF loc # PPUAddressData_DATA THEN [m |-> m, val |-> 0]
    ELSE
    Bind(PPURAM_read(m, m.ppu.v), LAMBDA r :
    LET data == IF m.ppu.v >= 16128 THEN r.val ELSE m.ppu.data_buffer
        m1 == [m EXCEPT !.ppu.data_buffer = r.val]
        m2 == IF (m1.ppu.mask.bg_enable # 1 /\ m1.ppu.mask.sprite_enable # 1)
                 \/ (240 < m1.ppu.scanline /\ m1.ppu.scanline <= 260)
              THEN PPUAddressData_increment_address(m1)
              ELSE PPUAddressData_increment_coarse_address(m1)
    IN  IF r.m.exc # "none" THEN [m |-> r.m, val |-> 0]
        ELSE [m |-> m2, val |-> data])

\* PPUAddressData.write
PPUAddressData_write(m, loc, data) ==
    LET m0 == [m EXCEPT !.ppu.addr_data = data] IN
    IF loc = PPUAddressData_ADDR /\ ~m0.ppu.w
    THEN [m0 EXCEPT !.ppu.t = BitOr(@, BitAnd(Shl(data, 8), 16128)),
                    !.ppu.w = TRUE]
    ELSE IF loc = PPUAddressData_ADDR /\ m0.ppu.w
    THEN Bind(BitOr(BitAnd(data, 255), BitAnd(m0.ppu.t, 16128)), LAMBDA t1 :
         [m0 EXCEPT !.ppu.t = t1, !.ppu.v = t1, !.ppu.w = FALSE])
    ELSE IF loc = PPUAddressData_DATA
    THEN Bind(PPURAM_write(m0, m0.ppu.v, data), LAMBDA m1 :
         IF m1.exc # "none" THEN m1
         ELSE PPUAddressData_increment_address(m1))
    ELSE m0

----------------------------------------------------------------------------
(* core/ppu.py: the PPU as a bus member                                    *)

\* PPU.ro_mmap: 0x2002 -> _ppustatus, 0x2004 -> _oam (0x2007 is commented out)
PPU_ro_mmap == {8194, 8196}

\* PPU.w_mmap: 0x2000 .. 0x2007 and 0x4014
PPU_w_mmap == (8192 .. 8199) \cup {16404}

\* PPU.read: self.ro_mmap[loc].read(loc)
PPU_read(m, loc) ==
    IF loc = 8194 THEN PPUStatus_read(m, loc)
    ELSE IF loc = 8196 THEN OAM_read(m, loc)
    ELSE [m |-> Raise(m, "KeyError"), val |-> 0]

\* PPU.write: a port of w_mmap, otherwise a byte of the OAM storage
PPU_write(m, loc, val) ==
    IF loc \in PPU_w_mmap
    THEN CASE loc = 8192 -> PPUCtrl_write(m, loc, val)
           [] loc = 8193 -> PPUMask_write(m, loc, val)
           [] loc = 8194 -> PPUStatus_write(m, loc, val)
           [] loc = 8195 -> OAM_write(m, loc, val)
           [] loc = 8196 -> OAM_write(m, loc, val)
           [] loc = 8197 -> PPUScroll_write(m, loc, val)
           [] loc = 8198 -> PPUAddressData_write(m, loc, val)
           [] loc = 8199 -> PPUAddressData_write(m, loc, val)
           [] loc = 16404 -> OAM_write(m, loc, val)
    ELSE OAMRAM_write(m, loc, val)

\* PPU.dma
PPU_dma(m) == m.oam.dma

\* RAM.dma_transfer, the loop body for n in lo .. hi in ascending order:
\* to.write(to_loc, self.store[n]) with to_loc = n - base_address.  The range
\* is split in halves, the lower half first, to keep the evaluation shallow
RECURSIVE RAM_dma_loop(_, _, _, _)
RAM_dma_loop(m, base_address, lo, hi) ==
    IF m.exc # "none" THEN m
    ELSE IF lo = hi
    THEN PPU_write(m, lo - base_address, ListGet(m.ram, lo))
    ELSE LET mid == (lo + hi) \div 2 IN
         Bind(RAM_dma_loop(m, base_address, lo, mid), LAMBDA m1 :
         RAM_dma_loop(m1, base_address, mid + 1, hi))

\* RAM.dma_transfer with the loop over range(base_address, end_address),
\* which leaves the last byte of the page out
RAM_dma_transfer_short(m, page) ==
    Bind(BitAnd(Shl(page, 8), 65280), LAMBDA base_address :
    LET end_address == BitOr(base_address, 255)
    IN  RAM_dma_loop(m, base_address, base_address, end_address - 1))

\* RAM.dma_transfer(page, to) with to the PPU
RAM_dma_transfer(m, page) ==
    Bind(BitAnd(Shl(page, 8), 65280), LAMBDA base_address :
    LET end_address == BitOr(base_address, 255)
    IN  RAM_dma_loop(m, base_address, base_address, end_address))

\* MPU.dma_transfer
MPU_dma_transfer(m, page) == RAM_dma_transfer(m, page)

----------------------------------------------------------------------------
(* core/bus.py, built as Bus(mpu, ppu, ppu.ro_mmap, ppu.w_mmap)            *)

\* Bus._mirror_map_ppu with the window ending at 0x3FF8
Bus_mirror_map_ppu_narrow(loc) ==
    IF loc >= 8200 /\ loc <= 16376
    THEN BitOr((loc % 8192) % 8, 8192)
    ELSE loc

\* Bus._mirror_map_ppu
Bus_mirror_map_ppu(loc) ==
    IF loc >= 8200 /\ loc <= 16383
    THEN BitOr((loc % 8192) % 8, 8192)
    ELSE loc

\* Bus.read
Bus_read(m, loc) ==
    Bind(Bus_mirror_map_ppu(loc), LAMBDA l :
    IF l \in PPU_ro_mmap THEN PPU_read(m, l) ELSE MPU_read(m, l))

\* Bus.write
Bus_write(m, loc, data) ==
    Bind(Bus_mirror_map_ppu(loc), LAMBDA l :
    IF l \in PPU_w_mmap /\ l # OAM_DMA THEN PPU_write(m, l, data)
    ELSE IF l \in PPU_w_mmap /\ l = OAM_DMA
    THEN Bind(PPU_write(m, l, data), LAMBDA m1 :
         IF m1.exc # "none" THEN m1
         ELSE MPU_dma_transfer(m1, PPU_dma(m1)))
    ELSE MPU_write(m, l, data))

----------------------------------------------------------------------------
(* registers/pc.py, registers/status.py, memory/stack.py, utils/sign.py    *)

\* ProgramCounter.pc_lo: 0x00FF & reg
pc_lo(m) == Mask(m.mpu.pc, 255)

\* ProgramCounter.pc_hi: (0xFF00 & reg) >> 8
pc_hi(m) == Shr(Mask(m.mpu.pc, 65280), 8)

\* ProgramCounter.set_pc_lo
set_pc_lo(m, lo) ==
    [m EXCEPT !.mpu.pc = BitOr(Mask(@, 65280), Mask(lo, 255))]

\* ProgramCounter.set_pc_hi
set_pc_hi(m, hi) ==
    [m EXCEPT !.mpu.pc = Mask(BitOr(Shl(hi, 8), Mask(@, 255)), 65535)]

\* ProgramCounter.advance_pc
advance_pc(m) == [m EXCEPT !.mpu.pc = Mask(@ + 1, 65535)]

\* ProgramCounter.displace_pc: advances, then adds without wrapping
displace_pc(m, displacement) ==
    [m EXCEPT !.mpu.pc = Mask(@ + 1, 65535) + displacement]

\* utils.sign.to_8bit_signed: ((~n & 0xff) + 1) * -1 when bit 7 is set
to_8bit_signed(n) ==
    IF Bit(n, 7) = 1 THEN ((255 - (n % 256)) + 1) * (-1) ELSE n

\* FlagRegister.to_int with the break flag one place higher, in bit 5
FlagRegister_to_int_bit5(f) ==
    f.sign * 128 + f.overflow * 64 + f.break_ * 32 + 0 * 16
    + f.decimal * 8 + f.interrupt * 4 + f.zero * 2 + f.carry

\* FlagRegister.to_int: sign, overflow, 0, break_, decimal, interrupt, zero,
\* carry, most significant bit first
FlagRegister_to_int(f) ==
    f.sign * 128 + f.overflow * 64 + 0 * 32 + f.break_ * 16
    + f.decimal * 8 + f.interrupt * 4 + f.zero * 2 + f.carry

\* FlagRegister.update_flags
FlagRegister_update_flags(val) ==
    [sign |-> Shr(Mask(val, 128), 7),
     overflow |-> Shr(Mask(val, 64), 6),
     break_ |-> Shr(Mask(val, 16), 4),
     decimal |-> Shr(Mask(val, 8), 3),
     interrupt |-> Shr(Mask(val, 4), 2),
     zero |-> Shr(Mask(val, 2), 1),
     carry |-> Mask(val, 1)]

\* FlagRegister.update_sign
update_sign(m, val) ==
    [m EXCEPT !.mpu.flags.sign = IF Mask(val, 128) # 0 THEN 1 ELSE 0]

\* FlagRegister.update_zero
update_zero(m, val) ==
    [m EXCEPT !.mpu.flags.zero = IF val = 0 THEN 1 ELSE 0]

\* FlagRegister.update_carry: bit 7 of val, or bit 0 when bit7 is False
update_carry(m, val, bit7) ==
    [m EXCEPT !.mpu.flags.carry =
        IF bit7 THEN (IF Mask(val, 128) # 0 THEN 1 ELSE 0)
        ELSE (IF Mask(val, 1) # 0 THEN 1 ELSE 0)]

\* a push whose pointer leaves page 1 below 0x0100
Stack_push_no_wrap(m, data) ==
    [m EXCEPT !.ram = ListSet(@, m.mpu.sp, data),
              !.mpu.sp = m.mpu.sp - 1]

\* Stack.push: write at _sp, then _decrement_sp
Stack_push(m, data) ==
    [m EXCEPT !.ram = ListSet(@, m.mpu.sp, data),
              !.mpu.sp = BitOr(Mask(m.mpu.sp - 1, 255), 256)]

\* Stack._increment_sp
Stack_increment_sp(m) ==
    [m EXCEPT !.mpu.sp = BitOr(Mask(@ + 1, 255), 256)]

\* Stack.pop: _increment_sp, then read at _sp
Stack_pop(m) ==
    LET m1 == Stack_increment_sp(m) IN
    [m |-> m1, val |-> ListGet(m1.ram, m1.mpu.sp)]

----------------------------------------------------------------------------
(* core/mpu.py: reset, interrupt entry, operand fetch                      *)

\* MPU.reset
MPU_reset(m) ==
    LET start_lo == RAM_read(m, 65532)
        start_hi == RAM_read(m, 65533)
    IN  [m EXCEPT !.mpu.pc = BitOr(Shl(start_hi, 8), start_lo),
                  !.mpu.a = 0, !.mpu.x = 0, !.mpu.y = 0]

\* MPU.nmi
MPU_nmi(m) ==
    Bind(Stack_push(m, pc_hi(m)), LAMBDA m1 :
    Bind(Stack_push(m1, pc_lo(m1)), LAMBDA m2 :
    Bind(Stack_push(m2, FlagRegister_to_int(m2.mpu.flags)), LAMBDA m3 :
    Bind(set_pc_lo(m3, RAM_read(m3, 65530)), LAMBDA m4 :
    set_pc_hi(m4, RAM_read(m4, 65531))))))

\* Bus.nmi
Bus_nmi(m) == MPU_nmi(m)

\* MPU._data_fetch: bus.read(pc), then advance_pc
MPU_data_fetch(m) ==
    Bind(Bus_read(m, m.mpu.pc), LAMBDA r :
    IF r.m.exc # "none" THEN r ELSE [m |-> advance_pc(r.m), val |-> r.val])

\* MPU._addr_fetch: low byte, then high byte, each through the bus
MPU_addr_fetch(m) ==
    Bind(MPU_data_fetch(m), LAMBDA lo :
    IF lo.m.exc # "none" THEN lo
    ELSE Bind(MPU_data_fetch(lo.m), LAMBDA hi :
         IF hi.m.exc # "none" THEN hi
         ELSE [m |-> hi.m, val |-> BitOr(Shl(hi.val, 8), lo.val)]))

\* MPU._mode_abs: (data, addr); data is None when data_fetch is False
MPU_mode_abs(m, data_fetch) ==
    Bind(MPU_addr_fetch(m), LAMBDA f :
    IF f.m.exc # "none" THEN [m |-> f.m, data |-> 0, addr |-> 0]
    ELSE IF data_fetch
    THEN Bind(Bus_read(f.m, f.val), LAMBDA r :
         [m |-> r.m, data |-> r.val, addr |-> f.val])
    ELSE [m |-> f.m, data |-> 0, addr |-> f.val])

\* the rest of an operand fetch once the read r has returned: an exception
\* raised inside r ends the fetch
AfterRead(r, F(_)) ==
    Bind(r, LAMBDA v :
    IF v.m.exc # "none" THEN [m |-> v.m, data |-> 0, addr |-> 0] ELSE F(v))

\* bus.read(loc) and bus.read(loc + 1) joined as (hi << 8) | (lo & 0xFF)
Bus_read_pointer(m, loc) ==
    Bind(Bus_read(m, loc), LAMBDA lo :
    IF lo.m.exc # "none" THEN lo
    ELSE Bind(Bus_read(lo.m, loc + 1), LAMBDA hi :
         IF hi.m.exc # "none" THEN hi
         ELSE [m |-> hi.m, val |-> BitOr(Shl(hi.val, 8), Mask(lo.val, 255))]))

\* MPU._zpage_addr_fetch
MPU_zpage_addr_fetch(m) == MPU_data_fetch(m)

\* MPU._absix_fetch: the absolute operand plus X, wrapped to 16 bits
MPU_absix_fetch(m) ==
    Bind(MPU_addr_fetch(m), LAMBDA f :
    IF f.m.exc # "none" THEN f
    ELSE [m |-> f.m, val |-> Mask(f.val + f.m.mpu.x, 65535)])

\* MPU._mode_imm
MPU_mode_imm(m) ==
    AfterRead(MPU_data_fetch(m), LAMBDA d :
    [m |-> d.m, data |-> d.val, addr |-> 0])

\* MPU._mode_zp: the data is read with MPU.read, not through the bus
MPU_mode_zp(m, data_fetch) ==
    AfterRead(MPU_zpage_addr_fetch(m), LAMBDA f :
    IF data_fetch
    THEN Bind(MPU_read(f.m, f.val), LAMBDA r :
         [m |-> r.m, data |-> r.val, addr |-> f.val])
    ELSE [m |-> f.m, data |-> 0, addr |-> f.val])

\* MPU._mode_zpx: (addr + x) & 0xFFFF, read with MPU.read
MPU_mode_zpx(m) ==
    AfterRead(MPU_zpage_addr_fetch(m), LAMBDA f :
    Bind(Mask(f.val + f.m.mpu.x, 65535), LAMBDA indexed_addr :
    Bind(MPU_read(f.m, indexed_addr), LAMBDA r :
    [m |-> r.m, data |-> r.val, addr |-> indexed_addr])))

\* MPU._mode_zpy: (addr + y) & 0xFFFF, read with MPU.read
MPU_mode_zpy(m) ==
    AfterRead(MPU_zpage_addr_fetch(m), LAMBDA f :
    Bind(Mask(f.val + f.m.mpu.y, 65535), LAMBDA indexed_addr :
    Bind(MPU_read(f.m, indexed_addr), LAMBDA r :
    [m |-> r.m, data |-> r.val, addr |-> indexed_addr])))

\* MPU._mode_absx: addr + x, not wrapped, read through the bus
MPU_mode_absx(m) ==
    AfterRead(MPU_addr_fetch(m), LAMBDA f :
    Bind(f.val + f.m.mpu.x, LAMBDA indexed_addr :
    Bind(Bus_read(f.m, indexed_addr), LAMBDA r :
    [m |-> r.m, data |-> r.val, addr |-> indexed_addr])))

\* MPU._mode_absy: (addr + (y & 0xFF)) & 0xFFFF, read through the bus
MPU_mode_absy(m) ==
    AfterRead(MPU_addr_fetch(m), LAMBDA f :
    Bind(Mask(f.val + Mask(f.m.mpu.y, 255), 65535), LAMBDA indexed_addr :
    Bind(Bus_read(f.m, indexed_addr), LAMBDA r :
    [m |-> r.m, data |-> r.val, addr |-> indexed_addr])))

\* MPU._mode_absix: the pointer at (operand + X), then the byte it names
MPU_mode_absix(m) ==
    AfterRead(MPU_absix_fetch(m), LAMBDA f :
    AfterRead(Bus_read_pointer(f.m, f.val), LAMBDA p :
    Bind(Bus_read(p.m, p.val), LAMBDA r :
    [m |-> r.m, data |-> r.val, addr |-> p.val])))

\* MPU._mode_zpiy: the pointer at the operand (high byte from addr + 1),
\* plus Y, wrapped to 16 bits
MPU_mode_zpiy(m) ==
    AfterRead(MPU_zpage_addr_fetch(m), LAMBDA f :
    AfterRead(Bus_read_pointer(f.m, f.val), LAMBDA p :
    Bind(Mask(p.val + p.m.mpu.y, 65535), LAMBDA index_offset :
    Bind(Bus_read(p.m, index_offset), LAMBDA r :
    [m |-> r.m, data |-> r.val, addr |-> index_offset]))))

\* MPU._mode_zpix: the pointer at (operand + X) & 0xFFFF (high byte from
\* indexed_addr + 1), then the byte it names
MPU_mode_zpix(m) ==
    AfterRead(MPU_zpage_addr_fetch(m), LAMBDA f :
    AfterRead(Bus_read_pointer(f.m, Mask(f.val + f.m.mpu.x, 65535)),
              LAMBDA p :
    Bind(Bus_read(p.m, p.val), LAMBDA r :
    [m |-> r.m, data |-> r.val, addr |-> p.val])))

\* the (data, addr) pair a handler obtains for a memory addressing mode
MPU_operand(m, mode) ==
    CASE mode = "IMM" -> MPU_mode_imm(m)
      [] mode = "ZP" -> MPU_mode_zp(m, TRUE)
      [] mode = "ZPX" -> MPU_mode_zpx(m)
      [] mode = "ZPY" -> MPU_mode_zpy(m)
      [] mode = "ABS" -> MPU_mode_abs(m, TRUE)
      [] mode = "ABSX" -> MPU_mode_absx(m)
      [] mode = "ABSY" -> MPU_mode_absy(m)
      [] mode = "ABSIX" -> MPU_mode_absix(m)
      [] mode = "ZPIX" -> MPU_mode_zpix(m)
      [] mode = "ZPIY" -> MPU_mode_zpiy(m)

----------------------------------------------------------------------------
(* core/mpu.py: the dispatch table and the instruction handlers            *)

\* MPU._lookup_table, indexed by the opcode byte (row = high nibble,
\* entry = low nibble); an opcode that is absent here is a (None, None) entry
MappedOpcodes ==
    0 :> <<"brk", "IMPLIED">> @@ 1 :> <<"ora", "ABSIX">> @@
    5 :> <<"ora", "ZP">> @@ 6 :> <<"asl", "ZP">> @@
    8 :> <<"php", "IMPLIED">> @@ 9 :> <<"ora", "IMM">> @@
    10 :> <<"asl", "ACC">> @@ 13 :> <<"ora", "ABS">> @@
    14 :> <<"asl", "ABS">> @@ 16 :> <<"bpl", "REL">> @@
    17 :> <<"ora", "ZPIY">> @@ 21 :> <<"ora", "ZPX">> @@
    22 :> <<"asl", "ZPX">> @@ 24 :> <<"clc", "IMPLIED">> @@
    25 :> <<"ora", "ABSY">> @@ 29 :> <<"ora", "ABSX">> @@
    30 :> <<"asl", "ABSX">> @@ 32 :> <<"jsr", "ABS">> @@
    33 :> <<"and", "ABSIX">> @@ 36 :> <<"bit", "ZP">> @@
    37 :> <<"and", "ZP">> @@ 38 :> <<"rol", "ZP">> @@
    40 :> <<"plp", "IMPLIED">> @@ 41 :> <<"and", "IMM">> @@
    42 :> <<"rol", "ACC">> @@ 44 :> <<"bit", "ABS">> @@
    45 :> <<"and", "ABS">> @@ 46 :> <<"rol", "ABS">> @@
    48 :> <<"bmi", "REL">> @@ 49 :> <<"and", "ZPIY">> @@
    53 :> <<"and", "ZPX">> @@ 54 :> <<"rol", "ZPX">> @@
    56 :> <<"sec", "IMPLIED">> @@ 57 :> <<"and", "ABSY">> @@
    61 :> <<"and", "ABSX">> @@ 62 :> <<"rol", "ABSX">> @@
    64 :> <<"rti", "IMPLIED">> @@ 65 :> <<"eor", "ABSIX">> @@
    69 :> <<"eor", "ZP">> @@ 70 :> <<"lsr", "ZP">> @@
    72 :> <<"pha", "IMPLIED">> @@ 73 :> <<"eor", "IMM">> @@
    74 :> <<"lsr", "ACC">> @@ 76 :> <<"jmp", "ABS">> @@
    77 :> <<"eor", "ABS">> @@ 78 :> <<"lsr", "ABS">> @@
    80 :> <<"bvc", "REL">> @@ 81 :> <<"eor", "ZPIY">> @@
    85 :> <<"eor", "ZPX">> @@ 86 :> <<"lsr", "ZPX">> @@
    88 :> <<"cli", "IMPLIED">> @@ 89 :> <<"eor", "ABSY">> @@
    93 :> <<"eor", "ABSX">> @@ 94 :> <<"lsr", "ABSX">> @@
    96 :> <<"rts", "IMPLIED">> @@ 97 :> <<"adc", "ABSIX">> @@
    101 :> <<"adc", "ZP">> @@ 102 :> <<"ror", "ZP">> @@
    104 :> <<"pla", "IMPLIED">> @@ 105 :> <<"adc", "IMM">> @@
    106 :> <<"ror", "ACC">> @@ 108 :> <<"jmp", "IND">> @@
    109 :> <<"adc", "ABS">> @@ 110 :> <<"ror", "ABS">> @@
    112 :> <<"bvs", "REL">> @@ 113 :> <<"adc", "ZPIY">> @@
    117 :> <<"adc", "ZPX">> @@ 118 :> <<"ror", "ZPX">> @@
    120 :> <<"sei", "IMPLIED">> @@ 121 :> <<"adc", "ABSY">> @@
    125 :> <<"adc", "ABSX">> @@ 126 :> <<"ror", "ABSX">> @@
    129 :> <<"sta", "ZPIX">> @@ 132 :> <<"sty", "ZP">> @@
    133 :> <<"sta", "ZP">> @@ 134 :> <<"stx", "ZP">> @@
    136 :> <<"dey", "IMPLIED">> @@ 138 :> <<"txa", "IMPLIED">> @@
    140 :> <<"sty", "ABS">> @@ 141 :> <<"sta", "ABS">> @@
    142 :> <<"stx", "ABS">> @@ 144 :> <<"bcc", "REL">> @@
    145 :> <<"sta", "ZPIY">> @@ 148 :> <<"sty", "ZPX">> @@
    149 :> <<"sta", "ZPX">> @@ 150 :> <<"stx", "ZPY">> @@
    152 :> <<"tya", "IMPLIED">> @@ 153 :> <<"sta", "ABSY">> @@
    154 :> <<"txs", "IMPLIED">> @@ 157 :> <<"sta", "ABSX">> @@
    160 :> <<"ldy", "IMM">> @@ 161 :> <<"lda", "ZPIX">> @@
    162 :> <<"ldx", "IMM">> @@ 164 :> <<"ldy", "ZP">> @@
    165 :> <<"lda", "ZP">> @@ 166 :> <<"ldx", "ZP">> @@
    168 :> <<"tay", "IMPLIED">> @@ 169 :> <<"lda", "IMM">> @@
    170 :> <<"tax", "IMPLIED">> @@ 172 :> <<"ldy", "ABS">> @@
    173 :> <<"lda", "ABS">> @@ 174 :> <<"ldx", "ABS">> @@
    176 :> <<"bcs", "REL">> @@ 177 :> <<"lda", "ZPIY">> @@
    180 :> <<"ldy", "ZPX">> @@ 181 :> <<"lda", "ZPX">> @@
    182 :> <<"ldx", "ZPY">> @@ 184 :> <<"clv", "IMPLIED">> @@
    185 :> <<"lda", "ABSY">> @@ 186 :> <<"tsx", "IMPLIED">> @@
    188 :> <<"ldy", "ABSX">> @@ 189 :> <<"lda", "ABSX">> @@
    190 :> <<"ldx", "ABSY">> @@ 192 :> <<"cpy", "IMM">> @@
    193 :> <<"cmp", "ZPIX">> @@ 196 :> <<"cpy", "ZP">> @@
    197 :> <<"cmp", "ZP">> @@ 198 :> <<"dec", "ZP">> @@
    200 :> <<"iny", "IMPLIED">> @@ 201 :> <<"cmp", "IMM">> @@
    202 :> <<"dex", "IMPLIED">> @@ 204 :> <<"cpy", "ABS">> @@
    205 :> <<"cmp", "ABS">> @@ 206 :> <<"dec", "ABS">> @@
    208 :> <<"bne", "REL">> @@ 209 :> <<"cmp", "ZPIY">> @@
    213 :> <<"cmp", "ZPX">> @@ 214 :> <<"dec", "ZPX">> @@
    216 :> <<"cld", "IMPLIED">> @@ 217 :> <<"cmp", "ABSY">> @@
    221 :> <<"cmp", "ABSX">> @@ 222 :> <<"dec", "ABSX">> @@
    224 :> <<"cpx", "IMM">> @@ 225 :> <<"sbc", "ZPIX">> @@
    228 :> <<"cpx", "ZP">> @@ 229 :> <<"sbc", "ZP">> @@
    230 :> <<"inc", "ZP">> @@ 232 :> <<"inx", "IMPLIED">> @@
    233 :> <<"sbc", "IMM">> @@ 234 :> <<"nop", "IMPLIED">> @@
    236 :> <<"cpx", "ABS">> @@ 237 :> <<"sbc", "ABS">> @@
    238 :> <<"inc", "ABS">> @@ 240 :> <<"beq", "REL">> @@
    241 :> <<"sbc", "ZPIY">> @@ 245 :> <<"sbc", "ZPX">> @@
    246 :> <<"inc", "ZPX">> @@ 248 :> <<"sed", "IMPLIED">> @@
    249 :> <<"sbc", "ABSY">> @@ 253 :> <<"sbc", "ABSX">> @@
    254 :> <<"inc", "ABSX">>

\* the (handler, addressing mode) pair of an opcode byte
LookupTable(instruction) ==
    IF instruction \in DOMAIN MappedOpcodes
    THEN MappedOpcodes[instruction]
    ELSE <<"None", "None">>

\* the branch handlers share one body: the displacement is read through the
\* bus, the PC is advanced, and a taken branch calls displace_pc
MPU_branch(m, mode, taken) ==
    IF mode # "REL" THEN Raise(m, "IllegalAddressingMode")
    ELSE Bind(Bus_read(m, m.mpu.pc), LAMBDA r :
         IF r.m.exc # "none" THEN r.m
         ELSE IF taken
         THEN displace_pc(advance_pc(r.m), to_8bit_signed(r.val))
         ELSE advance_pc(r.m))

MPU_bcc(m, mode) == MPU_branch(m, mode, m.mpu.flags.carry = 0)
MPU_bcs(m, mode) == MPU_branch(m, mode, m.mpu.flags.carry = 1)
MPU_beq(m, mode) == MPU_branch(m, mode, m.mpu.flags.zero = 1)
MPU_bne(m, mode) == MPU_branch(m, mode, m.mpu.flags.zero = 0)
MPU_bmi(m, mode) == MPU_branch(m, mode, m.mpu.flags.sign = 1)
MPU_bpl(m, mode) == MPU_branch(m, mode, m.mpu.flags.sign = 0)
MPU_bvc(m, mode) == MPU_branch(m, mode, m.mpu.flags.overflow = 0)
MPU_bvs(m, mode) == MPU_branch(m, mode, m.mpu.flags.overflow = 1)

\* MPU._clc, MPU._sec
MPU_clc(m, mode) ==
    IF mode # "IMPLIED" THEN Raise(m, "IllegalAddressingMode")
    ELSE [m EXCEPT !.mpu.flags.carry = 0]

MPU_sec(m, mode) ==
    IF mode # "IMPLIED" THEN Raise(m, "IllegalAddressingMode")
    ELSE [m EXCEPT !.mpu.flags.carry = 1]

\* MPU._nop
MPU_nop(m, mode) ==
    IF mode # "IMPLIED" THEN Raise(m, "IllegalAddressingMode") ELSE m

\* MPU._jmp with the absolute mode
MPU_jmp(m, mode) ==
    IF mode = "ABS"
    THEN Bind(MPU_mode_abs(m, FALSE), LAMBDA f :
         IF f.m.exc # "none" THEN f.m ELSE [f.m EXCEPT !.mpu.pc = f.addr])
    ELSE Raise(m, "IllegalAddressingMode")

\* MPU._lda
MPU_lda(m, mode) ==
    IF mode \notin {"ABS", "ZP", "IMM", "ABSX", "ABSY", "ZPIX", "ZPIY", "ZPX"}
    THEN Raise(m, "IllegalAddressingMode")
    ELSE Bind(MPU_operand(m, mode), LAMBDA f :
         IF f.m.exc # "none" THEN f.m
         ELSE Bind(Mask(f.data, 255), LAMBDA a :
              update_zero(update_sign([f.m EXCEPT !.mpu.a = a], a), a)))

\* the address a store obtains: _mode_abs and _mode_zp with
\* data_fetch=False, every other mode through the helper that also reads
\* the operand
MPU_store_operand(m, mode) ==
    CASE mode = "ABS" -> MPU_mode_abs(m, FALSE)
      [] mode = "ZP" -> MPU_mode_zp(m, FALSE)
      [] OTHER -> MPU_operand(m, mode)

\* MPU._sta: the zero-page mode writes the store directly, the others write
\* a & 0xFF through the bus
MPU_sta(m, mode) ==
    IF mode \notin {"ABS", "ZP", "ABSX", "ABSY", "ZPIX", "ZPIY", "ZPX"}
    THEN Raise(m, "IllegalAddressingMode")
    ELSE Bind(MPU_store_operand(m, mode), LAMBDA f :
         IF f.m.exc # "none" THEN f.m
         ELSE IF mode = "ZP"
         THEN [f.m EXCEPT !.ram = ListSet(@, f.addr, Mask(f.m.mpu.a, 255))]
         ELSE Bus_write(f.m, f.addr, Mask(f.m.mpu.a, 255)))

\* MPU._stx: bus.write(addr, x & 0xFF)
MPU_stx(m, mode) ==
    IF mode \notin {"ABS", "ZP", "ZPY"}
    THEN Raise(m, "IllegalAddressingMode")
    ELSE Bind(MPU_store_operand(m, mode), LAMBDA f :
         IF f.m.exc # "none" THEN f.m
         ELSE Bus_write(f.m, f.addr, Mask(f.m.mpu.x, 255)))

\* MPU._sty: bus.write(addr, y & 0xFF)
MPU_sty(m, mode) ==
    IF mode \notin {"ABS", "ZP", "ZPX"}
    THEN Raise(m, "IllegalAddressingMode")
    ELSE Bind(MPU_store_operand(m, mode), LAMBDA f :
         IF f.m.exc # "none" THEN f.m
         ELSE Bus_write(f.m, f.addr, Mask(f.m.mpu.y, 255)))

\* MPU._rti: pop the status, the low and the high byte of the PC, then
\* raise ReturnFromInterrupt
MPU_rti(m, mode) ==
    IF mode # "IMPLIED" THEN Raise(m, "IllegalAddressingMode")
    ELSE Bind(Stack_pop(m), LAMBDA p1 :
         Bind([p1.m EXCEPT
                 !.mpu.flags = FlagRegister_update_flags(p1.val)], LAMBDA m1 :
         Bind(Stack_pop(m1), LAMBDA p2 :
         Bind(set_pc_lo(p2.m, p2.val), LAMBDA m2 :
         Bind(Stack_pop(m2), LAMBDA p3 :
         Raise(set_pc_hi(p3.m, p3.val), "ReturnFromInterrupt"))))))

\* MPU._brk: push PC + 2 (high, low), restore the PC, push the status, then
\* load the PC from 0xFFFE/0xFFFF through the bus
MPU_brk(m, mode) ==
    IF mode # "IMPLIED" THEN Raise(m, "IllegalAddressingMode")
    ELSE Bind([m EXCEPT !.mpu.pc = @ + 2], LAMBDA m0 :
         Bind(Stack_push(m0, pc_hi(m0)), LAMBDA m1 :
         Bind(Stack_push(m1, pc_lo(m1)), LAMBDA m2 :
         Bind([m2 EXCEPT !.mpu.pc = @ - 2], LAMBDA m3 :
         Bind(Stack_push(m3, FlagRegister_to_int(m3.mpu.flags)), LAMBDA m4 :
         Bind(Bus_read(m4, 65534), LAMBDA lo :
         Bind(set_pc_lo(lo.m, lo.val), LAMBDA m5 :
         Bind(Bus_read(m5, 65535), LAMBDA hi :
         set_pc_hi(hi.m, hi.val)))))))))

\* MPU._ldx
MPU_ldx(m, mode) ==
    IF mode \notin {"ABS", "ZP", "IMM", "ABSY", "ZPY"}
    THEN Raise(m, "IllegalAddressingMode")
    ELSE Bind(MPU_operand(m, mode), LAMBDA f :
         IF f.m.exc # "none" THEN f.m
         ELSE Bind(Mask(f.data, 255), LAMBDA v :
              update_zero(update_sign([f.m EXCEPT !.mpu.x = v], v), v)))

\* MPU._ldy
MPU_ldy(m, mode) ==
    IF mode \notin {"IMM", "ZP", "ABS", "ZPX", "ABSX"}
    THEN Raise(m, "IllegalAddressingMode")
    ELSE Bind(MPU_operand(m, mode), LAMBDA f :
         IF f.m.exc # "none" THEN f.m
         ELSE Bind(Mask(f.data, 255), LAMBDA v :
              update_zero(update_sign([f.m EXCEPT !.mpu.y = v], v), v)))

\* MPU._pha: push a & 0xFF
MPU_pha(m, mode) ==
    IF mode # "IMPLIED" THEN Raise(m, "IllegalAddressingMode")
    ELSE Stack_push(m, Mask(m.mpu.a, 255))

\* MPU._php: push to_int() & 0xFF
MPU_php(m, mode) ==
    IF mode # "IMPLIED" THEN Raise(m, "IllegalAddressingMode")
    ELSE Stack_push(m, Mask(FlagRegister_to_int(m.mpu.flags), 255))

\* MPU._plp: update_flags(pop() & 0xFF)
MPU_plp(m, mode) ==
    IF mode # "IMPLIED" THEN Raise(m, "IllegalAddressingMode")
    ELSE Bind(Stack_pop(m), LAMBDA p :
         [p.m EXCEPT !.mpu.flags = FlagRegister_update_flags(Mask(p.val, 255))])

\* MPU._jsr: fetch the target, step the PC back by one (no wrap), push its
\* high then its low byte, jump
MPU_jsr(m, mode) ==
    IF mode = "ABS"
    THEN Bind(MPU_mode_abs(m, FALSE), LAMBDA f :
         IF f.m.exc # "none" THEN f.m
         ELSE Bind([f.m EXCEPT !.mpu.pc = @ - 1], LAMBDA m0 :
              Bind(Stack_push(m0, pc_hi(m0)), LAMBDA m1 :
              Bind(Stack_push(m1, pc_lo(m1)), LAMBDA m2 :
              [m2 EXCEPT !.mpu.pc = f.addr]))))
    ELSE Raise(m, "IllegalAddressingMode")

\* MPU._rts: pop the low byte, then the high byte, then advance_pc
MPU_rts(m, mode) ==
    IF mode # "IMPLIED" THEN Raise(m, "IllegalAddressingMode")
    ELSE Bind(Stack_pop(m), LAMBDA p1 :
         Bind(set_pc_lo(p1.m, p1.val), LAMBDA m1 :
         Bind(Stack_pop(m1), LAMBDA p2 :
         Bind(set_pc_hi(p2.m, p2.val), LAMBDA m2 :
         advance_pc(m2)))))

\* MPU._adc: the sum is computed, carry, sign and zero are taken from the
\* accumulator as it is before the addition, and the next statement calls
\* FlagRegister.update_overflow, a method status.py does not define: the
\* handler ends in AttributeError before the accumulator is assigned
MPU_adc(m, mode) ==
    IF mode \notin {"ABSIX", "ZP", "IMM", "ABS", "ZPIY", "ZPX", "ABSY", "ABSX"}
    THEN Raise(m, "IllegalAddressingMode")
    ELSE Bind(MPU_operand(m, mode), LAMBDA f :
         IF f.m.exc # "none" THEN f.m
         ELSE Bind(update_carry(f.m, f.m.mpu.a, TRUE), LAMBDA m1 :
              Bind(update_sign(m1, m1.mpu.a), LAMBDA m2 :
              Bind(update_zero(m2, m2.mpu.a), LAMBDA m3 :
              Raise(m3, "AttributeError")))))

\* MPU._sbc: the difference (a - data) - carry is computed, sign is taken
\* from the accumulator, and the call of the undefined update_overflow ends
\* the handler in AttributeError
MPU_sbc(m, mode) ==
    IF mode \notin {"ABS", "ZP", "IMM", "ABSX", "ABSY", "ZPIX", "ZPIY", "ZPX"}
    THEN Raise(m, "IllegalAddressingMode")
    ELSE Bind(MPU_operand(m, mode), LAMBDA f :
         IF f.m.exc # "none" THEN f.m
         ELSE Bind(update_sign(f.m, f.m.mpu.a), LAMBDA m1 :
              Raise(m1, "AttributeError")))

\* MPU.__shift_left: carry from bit 8 of data << 1, zero and sign from the
\* low byte
MPU_shift_left(m, data) ==
    Bind(Shl(data, 1), LAMBDA wide :
    Bind(Mask(wide, 255), LAMBDA shifted :
    Bind([m EXCEPT !.mpu.flags.carry = IF Mask(wide, 256) # 0 THEN 1 ELSE 0],
         LAMBDA m1 :
    [m |-> update_sign(update_zero(m1, shifted), shifted), val |-> shifted])))

\* MPU._asl: the zero-page,X branch writes back the byte it read
MPU_asl(m, mode) ==
    IF mode = "ACC"
    THEN Bind(MPU_shift_left(m, m.mpu.a), LAMBDA s :
         [s.m EXCEPT !.mpu.a = s.val])
    ELSE IF mode \in {"ABS", "ZP", "ABSX"}
    THEN Bind(MPU_operand(m, mode), LAMBDA f :
         IF f.m.exc # "none" THEN f.m
         ELSE Bind(MPU_shift_left(f.m, f.data), LAMBDA s :
              Bus_write(s.m, f.addr, s.val)))
    ELSE IF mode = "ZPX"
    THEN Bind(MPU_operand(m, mode), LAMBDA f :
         IF f.m.exc # "none" THEN f.m
         ELSE Bind(MPU_shift_left(f.m, f.data), LAMBDA s :
              Bus_write(s.m, f.addr, f.data)))
    ELSE Raise(m, "IllegalAddressingMode")

\* MPU._rol: data << 1, carry from bit 7 of the shifted value, the previous
\* carry into bit 0; sign and zero are not touched
MPU_rol(m, mode) ==
    IF mode \notin {"ACC", "ABS", "ZP", "ABSX", "ZPX"}
    THEN Raise(m, "IllegalAddressingMode")
    ELSE Bind(IF mode = "ACC" THEN [m |-> m, data |-> m.mpu.a, addr |-> 0]
              ELSE MPU_operand(m, mode), LAMBDA f :
         IF f.m.exc # "none" THEN f.m
         ELSE Bind(f.m.mpu.flags.carry, LAMBDA current_carry :
              Bind(Shl(f.data, 1), LAMBDA wide :
              Bind(update_carry(f.m, wide, TRUE), LAMBDA m1 :
              Bind(Mask(BitOr(wide, current_carry), 255), LAMBDA data :
              IF mode = "ACC" THEN [m1 EXCEPT !.mpu.a = data]
              ELSE Bus_write(m1, f.addr, data))))))

\* MPU._ror: after the operand fetch the handler calls
\* update_carry(data, bit_high=False); update_carry has no parameter of that
\* name, so the call raises TypeError and nothing is rotated
MPU_ror(m, mode) ==
    IF mode \notin {"ACC", "ABS", "ZP", "ABSX", "ZPX"}
    THEN Raise(m, "IllegalAddressingMode")
    ELSE Bind(IF mode = "ACC" THEN [m |-> m, data |-> m.mpu.a, addr |-> 0]
              ELSE MPU_operand(m, mode), LAMBDA f :
         IF f.m.exc # "none" THEN f.m ELSE Raise(f.m, "TypeError"))

\* MPU._lsr: as in _ror, update_carry(data, bit_high=False) raises TypeError
\* once the operand is fetched
MPU_lsr(m, mode) ==
    IF mode \notin {"ACC", "ABS", "ZP", "ABSX", "ZPX"}
    THEN Raise(m, "IllegalAddressingMode")
    ELSE Bind(IF mode = "ACC" THEN [m |-> m, data |-> m.mpu.a, addr |-> 0]
              ELSE MPU_operand(m, mode), LAMBDA f :
         IF f.m.exc # "none" THEN f.m ELSE Raise(f.m, "TypeError"))

\* the flag updates of MPU._cmp, _cpx and _cpy for result = reg - data:
\* zero from the low byte, sign from bit 7, carry set when
\* result & 0xFF00 is not zero
MPU_compare(m, reg, data) ==
    Bind(reg - data, LAMBDA result :
    [m EXCEPT !.mpu.flags.zero = IF Mask(result, 255) = 0 THEN 1 ELSE 0,
              !.mpu.flags.sign = IF Mask(result, 128) = 128 THEN 1 ELSE 0,
              !.mpu.flags.carry = IF Mask(result, 65280) # 0 THEN 1 ELSE 0])

\* MPU._cmp
MPU_cmp(m, mode) ==
    IF mode \notin {"ABS", "ZP", "IMM", "ABSX", "ABSY", "ZPIX", "ZPIY", "ZPX"}
    THEN Raise(m, "IllegalAddressingMode")
    ELSE Bind(MPU_operand(m, mode), LAMBDA f :
         IF f.m.exc # "none" THEN f.m
         ELSE MPU_compare(f.m, f.m.mpu.a, f.data))

\* MPU._cpx
MPU_cpx(m, mode) ==
    IF mode \notin {"ABS", "ZP", "IMM"}
    THEN Raise(m, "IllegalAddressingMode")
    ELSE Bind(MPU_operand(m, mode), LAMBDA f :
         IF f.m.exc # "none" THEN f.m
         ELSE MPU_compare(f.m, f.m.mpu.x, f.data))

\* MPU._cpy
MPU_cpy(m, mode) ==
    IF mode \notin {"ABS", "ZP", "IMM"}
    THEN Raise(m, "IllegalAddressingMode")
    ELSE Bind(MPU_operand(m, mode), LAMBDA f :
         IF f.m.exc # "none" THEN f.m
         ELSE MPU_compare(f.m, f.m.mpu.y, f.data))

\* MPU._pla: a = pop() & 0xFF, then the sign and zero flags of a
MPU_pla(m, mode) ==
    IF mode # "IMPLIED" THEN Raise(m, "IllegalAddressingMode")
    ELSE Bind(Stack_pop(m), LAMBDA p :
         Bind(Mask(p.val, 255), LAMBDA a :
         update_zero(update_sign([p.m EXCEPT !.mpu.a = a], a), a)))

\* Stack.set_sp: (0x0100 | (val & 0xFF)) & 0x01FF
Stack_set_sp(m, val) ==
    [m EXCEPT !.mpu.sp = Mask(BitOr(256, Mask(val, 255)), 511)]

\* MPU._txs: set_sp(x), then the sign and zero flags of _sp, page bit included
MPU_txs(m, mode) ==
    IF mode # "IMPLIED" THEN Raise(m, "IllegalAddressingMode")
    ELSE Bind(Stack_set_sp(m, m.mpu.x), LAMBDA m1 :
         update_zero(update_sign(m1, m1.mpu.sp), m1.mpu.sp))

\* MPU._tsx: x = Stack.sp, which is _sp & 0xFF
MPU_tsx(m, mode) ==
    IF mode # "IMPLIED" THEN Raise(m, "IllegalAddressingMode")
    ELSE Bind(Mask(m.mpu.sp, 255), LAMBDA v :
         update_zero(update_sign([m EXCEPT !.mpu.x = v], v), v))

\* MPU._tax: x = a & 0xFF, sign and zero from a
MPU_tax(m, mode) ==
    IF mode # "IMPLIED" THEN Raise(m, "IllegalAddressingMode")
    ELSE update_zero(update_sign([m EXCEPT !.mpu.x = Mask(m.mpu.a, 255)],
                                 m.mpu.a), m.mpu.a)

\* MPU._tay: y = a & 0xFF, sign and zero from a
MPU_tay(m, mode) ==
    IF mode # "IMPLIED" THEN Raise(m, "IllegalAddressingMode")
    ELSE update_zero(update_sign([m EXCEPT !.mpu.y = Mask(m.mpu.a, 255)],
                                 m.mpu.a), m.mpu.a)

\* MPU._txa: a = x & 0xFF, sign and zero from a
MPU_txa(m, mode) ==
    IF mode # "IMPLIED" THEN Raise(m, "IllegalAddressingMode")
    ELSE Bind(Mask(m.mpu.x, 255), LAMBDA v :
         update_zero(update_sign([m EXCEPT !.mpu.a = v], v), v))

\* MPU._tya: a = y & 0xFF, sign and zero from a
MPU_tya(m, mode) ==
    IF mode # "IMPLIED" THEN Raise(m, "IllegalAddressingMode")
    ELSE Bind(Mask(m.mpu.y, 255), LAMBDA v :
         update_zero(update_sign([m EXCEPT !.mpu.a = v], v), v))

\* MPU._ora, MPU._and, MPU._eor share one shape: the operand of one of eight
\* modes, any other mode raises, then a = (a op data) & 0xFF and its flags
MPU_logic(m, mode, op) ==
    LET Op(a, d) == CASE op = "ora" -> BitOr(a, d)
                      [] op = "and" -> BitAnd(a, d)
                      [] op = "eor" -> BitXor(a, d)
    IN
    IF mode \notin {"ABS", "ZP", "IMM", "ABSX", "ABSY", "ZPIX", "ZPIY", "ZPX"}
    THEN Raise(m, "IllegalAddressingMode")
    ELSE Bind(MPU_operand(m, mode), LAMBDA f :
         IF f.m.exc # "none" THEN f.m
         ELSE Bind(Mask(Op(f.m.mpu.a, f.data), 255), LAMBDA a :
              update_zero(update_sign([f.m EXCEPT !.mpu.a = a], a), a)))

\* MPU._ora
MPU_ora(m, mode) == MPU_logic(m, mode, "ora")

\* MPU._and
MPU_and(m, mode) == MPU_logic(m, mode, "and")

\* MPU._eor
MPU_eor(m, mode) == MPU_logic(m, mode, "eor")

\* op(addr_mode)
MPU_dispatch(m, op, mode) ==
    CASE op = "bcc" -> MPU_bcc(m, mode)
      [] op = "bcs" -> MPU_bcs(m, mode)
      [] op = "beq" -> MPU_beq(m, mode)
      [] op = "bne" -> MPU_bne(m, mode)
      [] op = "bmi" -> MPU_bmi(m, mode)
      [] op = "bpl" -> MPU_bpl(m, mode)
      [] op = "bvc" -> MPU_bvc(m, mode)
      [] op = "bvs" -> MPU_bvs(m, mode)
      [] op = "clc" -> MPU_clc(m, mode)
      [] op = "sec" -> MPU_sec(m, mode)
      [] op = "nop" -> MPU_nop(m, mode)
      [] op = "jmp" -> MPU_jmp(m, mode)
      [] op = "lda" -> MPU_lda(m, mode)
      [] op = "sta" -> MPU_sta(m, mode)
      [] op = "stx" -> MPU_stx(m, mode)
      [] op = "sty" -> MPU_sty(m, mode)
      [] op = "rti" -> MPU_rti(m, mode)
      [] op = "brk" -> MPU_brk(m, mode)
      [] op = "ldx" -> MPU_ldx(m, mode)
      [] op = "ldy" -> MPU_ldy(m, mode)
      [] op = "pha" -> MPU_pha(m, mode)
      [] op = "php" -> MPU_php(m, mode)
      [] op = "plp" -> MPU_plp(m, mode)
      [] op = "jsr" -> MPU_jsr(m, mode)
      [] op = "rts" -> MPU_rts(m, mode)
      [] op = "adc" -> MPU_adc(m, mode)
      [] op = "sbc" -> MPU_sbc(m, mode)
      [] op = "asl" -> MPU_asl(m, mode)
      [] op = "rol" -> MPU_rol(m, mode)
      [] op = "ror" -> MPU_ror(m, mode)
      [] op = "cmp" -> MPU_cmp(m, mode)
      [] op = "cpx" -> MPU_cpx(m, mode)
      [] op = "cpy" -> MPU_cpy(m, mode)
      [] op = "lsr" -> MPU_lsr(m, mode)
      [] op = "pla" -> MPU_pla(m, mode)
      [] op = "txs" -> MPU_txs(m, mode)
      [] op = "tsx" -> MPU_tsx(m, mode)
      [] op = "tax" -> MPU_tax(m, mode)
      [] op = "tay" -> MPU_tay(m, mode)
      [] op = "txa" -> MPU_txa(m, mode)
      [] op = "tya" -> MPU_tya(m, mode)
      [] op = "ora" -> MPU_ora(m, mode)
      [] op = "and" -> MPU_and(m, mode)
      [] op = "eor" -> MPU_eor(m, mode)
      [] OTHER -> Raise(m, "HandlerNotModelled")

\* MPU.execute: fetch the opcode, look it up, raise EndOfExecution on an
\* unmapped entry, otherwise run the handler
MPU_execute(m) ==
    Bind(MPU_data_fetch(m), LAMBDA f :
    Bind(LookupTable(f.val), LAMBDA entry :
    IF f.m.exc # "none" THEN f.m
    ELSE IF entry[1] = "None" THEN Raise(f.m, "EndOfExecution")
    ELSE MPU_dispatch(f.m, entry[1], entry[2])))

----------------------------------------------------------------------------
(* core/ppu.py: the scanline tick                                          *)

\* PPU.nmi: forward to the bus once per frame, then raise RaisedNMI
PPU_nmi(m) ==
    IF m.ppu.status.vblank = 1 /\ m.ppu.ctrl.nmi = 1 /\ ~m.ppu.nmi_triggered
    THEN Raise(Bus_nmi([m EXCEPT !.ppu.nmi_triggered = TRUE]), "RaisedNMI")
    ELSE m

\* a head that takes the pre-render line one line late
PPU_render_head_late(m) ==
    IF 240 < m.ppu.scanline /\ m.ppu.scanline <= 260
    THEN PPU_nmi([m EXCEPT !.ppu.scanline = @ + 1,
                           !.ppu.status.vblank = 1])
    ELSE IF m.ppu.scanline > 261
    THEN [m EXCEPT !.ppu.v = IF PPUMask_rendering_enabled(m)
                             THEN m.ppu.t ELSE @,
                   !.ppu.scanline = 0,
                   !.ppu.nmi_triggered = FALSE,
                   !.ppu.status.sprite_0_hit = 0,
                   !.ppu.status.vblank = 0]
    ELSE m

\* PPU.render, the head: the vertical-blank lines and the pre-render line
PPU_render_head(m) ==
    IF 240 < m.ppu.scanline /\ m.ppu.scanline <= 260
    THEN PPU_nmi([m EXCEPT !.ppu.scanline = @ + 1,
                           !.ppu.status.vblank = 1])
    ELSE IF m.ppu.scanline > 260
    THEN [m EXCEPT !.ppu.v = IF PPUMask_rendering_enabled(m)
                             THEN m.ppu.t ELSE @,
                   !.ppu.scanline = 0,
                   !.ppu.nmi_triggered = FALSE,
                   !.ppu.status.sprite_0_hit = 0,
                   !.ppu.status.vblank = 0]
    ELSE m

\* PPU.render: on a visible line with the background or the sprites enabled
\* the first PPURAM.read_chr call passes three arguments to a method of two
\* and raises TypeError; otherwise the line counter advances
PPU_render(m) ==
    Bind(PPU_render_head(m), LAMBDA m1 :
    IF m1.exc # "none" THEN m1
    ELSE IF m1.ppu.scanline < 240 /\ m1.ppu.mask.bg_enable = 1
    THEN Raise(m1, "TypeError")
    ELSE IF m1.ppu.scanline < 240 /\ m1.ppu.mask.sprite_enable = 1
    THEN Raise(m1, "TypeError")
    ELSE [m1 EXCEPT !.ppu.scanline = @ + 1])

----------------------------------------------------------------------------
(* State, power-on, and the observers.                                     *)

\* the machine after System.__init__: MPU(), PPU(), zero-filled memories
PowerOn == [mpu |-> MpuInit, ram |-> EmptyStore, ppu |-> PpuInit,
            oam |-> OamInit, vram |-> EmptyStore, exc |-> "none"]

\* the next state of the machine is m2
Commit(m2) ==
    /\ mpu' = m2.mpu
    /\ ram' = m2.ram
    /\ ppu' = m2.ppu
    /\ oam' = m2.oam
    /\ vram' = m2.vram
    /\ exc' = m2.exc

\* the machine starts as m0
Commit0(m0) ==
    /\ mpu = m0.mpu
    /\ ram = m0.ram
    /\ ppu = m0.ppu
    /\ oam = m0.oam
    /\ vram = m0.vram
    /\ exc = m0.exc

\* the bytes of seq stored from address base on
Bytes(base, seq) == [k \in base .. (base + Len(seq) - 1) |-> seq[k - base + 1]]

\* the port a CPU address selects once the mirror is reduced
Port(a) == Bus_mirror_map_ppu(a)

\* writes to 0x2005/0x2006 since the last read of 0x2002, as the observer
\* counts them: op is <<kind, address, byte>>
CountToggle(count, op) ==
    IF op[1] = "read" /\ Port(op[2]) = 8194 THEN 0
    ELSE IF op[1] = "write" /\ Port(op[2]) \in {8197, 8198} THEN count + 1
    ELSE count

\* the observers after operation op on machine pre; nmi is the number of
\* MPU.nmi calls in it (PPU.nmi raises RaisedNMI exactly when it made one),
\* newframe is TRUE when it reset the scanline counter
Observe(op, pre, nmi, newframe) ==
    [fam |-> obs.fam,
     n |-> obs.n + 1,
     op |-> op,
     op2 |-> obs.op,
     pre |-> pre,
     nmis |-> IF newframe THEN 0 ELSE obs.nmis + nmi,
     frames |-> IF newframe THEN obs.frames + 1 ELSE obs.frames,
     toggles |-> CountToggle(obs.toggles, op)]

ObsInit(fam) ==
    [fam |-> fam, n |-> 0, op |-> <<"init", 0, 0>>,
     op2 |-> <<"init", 0, 0>>, pre |-> PowerOn,
     nmis |-> 0, frames |-> 0, toggles |-> 0]

----------------------------------------------------------------------------
(* The bus driven directly: any caller of Bus.read and Bus.write, with     *)
(* PPU.render ticks in between.  The addresses and bytes come from one of  *)
(* several small input families, chosen at the start of a run.             *)

MaxRamOps == 2
MaxMirrorOps == 2
MaxVramOps == 4
MaxDmaOps == 3
MaxToggleOps == 4
MaxStatusOps == 2
MaxFrames == 1
MaxFrameOps == 2
MaxOamOps == 3
MaxHighOps == 3

Families == {"ram", "mirror", "vram", "dma", "toggle", "status", "high"}

\* the family of the runs that follow the PPU through the end of a frame:
\* control, mask and scroll writes and status reads among the PPU ticks
\* and the family of the runs on the OAM address and data ports
PpuFamilies == {"frame", "oam"}

\* the addresses a family writes
FamWrites(f) ==
    CASE f = "ram" -> {1, 2048, 4097, 8191}
      [] f = "mirror" -> {8200, 8203, 8204, 16382, 16383}
      [] f = "vram" -> {8198, 8199}
      [] f = "dma" -> {513, 767, 8195, 8196, 16404}
      [] f = "toggle" -> {8197, 8198}
      [] f = "status" -> {8198}
      [] f = "frame" -> {8192, 8193, 8197}
      [] f = "oam" -> {8195, 8196}
      [] f = "high" -> {0, 16416, 65535}

\* the addresses a family reads
FamReads(f) ==
    CASE f = "ram" -> {0, 1, 2047, 2048}
      [] f = "mirror" -> {8202, 8204}
      [] f = "vram" -> {8199}
      [] f = "dma" -> {8196}
      [] f = "toggle" -> {8194}
      [] f = "status" -> {8194}
      [] f = "frame" -> {8194}
      [] f = "oam" -> {8196}
      [] f = "high" -> {0, 65535}

\* the bytes a family writes
FamData(f) ==
    CASE f = "ram" -> {90, 255}
      [] f = "mirror" -> {63, 128}
      [] f = "vram" -> {0, 85}
      [] f = "dma" -> {2, 123}
      [] f = "toggle" -> {32, 63}
      [] f = "status" -> {32}
      [] f = "frame" -> {8, 24, 128}
      [] f = "oam" -> {253, 255}
      [] f = "high" -> {90, 165}

\* the number of bus operations of a run
FamMaxOps(f) ==
    CASE f = "ram" -> MaxRamOps
      [] f = "mirror" -> MaxMirrorOps
      [] f = "vram" -> MaxVramOps
      [] f = "dma" -> MaxDmaOps
      [] f = "toggle" -> MaxToggleOps
      [] f = "status" -> MaxStatusOps
      [] f = "frame" -> MaxFrameOps
      [] f = "oam" -> MaxOamOps
      [] f = "high" -> MaxHighOps

\* the families that interleave PPU ticks with the bus operations
FamTicks == {"status", "frame"}

\* the scanline from which on a family issues its bus operations in a frame
FamFrom(f) == IF f = "frame" THEN 239 ELSE 0

InitBus ==
    /\ mpu = PowerOn.mpu
    /\ ram = PowerOn.ram
    /\ ppu = PowerOn.ppu
    /\ oam = PowerOn.oam
    /\ vram = PowerOn.vram
    /\ exc = "none"
    /\ ret = 0
    /\ sys = [pos |-> "none", i |-> 0]
    /\ \E f \in Families : obs = ObsInit(f)

\* a call of Bus.read(a)
BusRead ==
    /\ exc = "none"
    /\ obs.fam \in Families \cup PpuFamilies
    /\ obs.n < FamMaxOps(obs.fam)
    /\ ppu.scanline >= FamFrom(obs.fam)
    /\ \E a \in FamReads(obs.fam) :
         \E r \in {Bus_read(Machine, a)} :
         /\ Commit(r.m)
         /\ ret' = r.val
         /\ obs' = Observe(<<"read", a, 0>>, Machine, 0, FALSE)
    /\ UNCHANGED sys

\* a call of Bus.write(a, d)
BusWrite ==
    /\ exc = "none"
    /\ obs.fam \in Families \cup PpuFamilies
    /\ obs.n < FamMaxOps(obs.fam)
    /\ ppu.scanline >= FamFrom(obs.fam)
    /\ \E a \in FamWrites(obs.fam), d \in FamData(obs.fam) :
         /\ \E m2 \in {Bus_write(Machine, a, d)} : Commit(m2)
         /\ obs' = Observe(<<"write", a, d>>, Machine, 0, FALSE)
    /\ UNCHANGED <<ret, sys>>

\* a call of PPU.render
PpuTick ==
    /\ exc = "none"
    /\ obs.fam \in FamTicks
    /\ obs.frames < MaxFrames
    /\ \E m2 \in {PPU_render(Machine)} :
       /\ Commit(m2)
       /\ obs' = [Observe(<<"tick", 0, 0>>, Machine,
                          IF m2.exc = "RaisedNMI" THEN 1 ELSE 0,
                          ppu.scanline > 260) EXCEPT !.n = obs.n]
    /\ UNCHANGED <<ret, sys>>

NextBus == BusRead \/ BusWrite \/ PpuTick

SpecBus == InitBus /\ [][NextBus]_vars

\* the same callers on the runs of the frame family
InitPpu ==
    /\ Commit0(PowerOn)
    /\ ret = 0
    /\ sys = [pos |-> "none", i |-> 0]
    /\ \E f \in PpuFamilies : obs = ObsInit(f)

SpecPpu == InitPpu /\ [][NextBus]_vars

----------------------------------------------------------------------------
(* The scroll increments of PPUAddressData applied to a current VRAM       *)
(* address that two writes to 0x2006 have set: fine-y 3, every nametable,  *)
(* and the coarse positions at and next to the wrap points.                *)

MaxIncs == 6

\* the high and the low byte written to 0x2006
AddrHi == {0, 3} \cup {48 + k : k \in 0 .. 15}
AddrLo == {0, 31, 160, 165, 191, 192, 224, 255}

InitInc ==
    /\ \E hi \in AddrHi, lo \in AddrLo :
          \E m1 \in {PPUAddressData_write(PowerOn, PPUAddressData_ADDR, hi)} :
             Commit0(PPUAddressData_write(m1, PPUAddressData_ADDR, lo))
    /\ ret = 0
    /\ sys = [pos |-> "none", i |-> 0]
    /\ obs = ObsInit("inc")

\* a call of PPUAddressData.coarse_y_inc
CoarseYInc ==
    /\ obs.n < MaxIncs
    /\ \E m2 \in {PPUAddressData_coarse_y_inc(Machine)} : Commit(m2)
    /\ obs' = Observe(<<"coarse_y_inc", 0, 0>>, Machine, 0, FALSE)
    /\ UNCHANGED <<ret, sys>>

\* a call of PPUAddressData.coarse_x_inc
CoarseXInc ==
    /\ obs.n < MaxIncs
    /\ \E m2 \in {PPUAddressData_coarse_x_inc(Machine)} : Commit(m2)
    /\ obs' = Observe(<<"coarse_x_inc", 0, 0>>, Machine, 0, FALSE)
    /\ UNCHANGED <<ret, sys>>

NextInc == CoarseYInc \/ CoarseXInc

SpecInc == InitInc /\ [][NextInc]_vars

----------------------------------------------------------------------------
(* core/system.py: the frame scheduler, System.start, from the first pass  *)
(* of its loop on.  The cartridge is one 16K PRG bank, given by its        *)
(* non-zero bytes.                                                         *)

\* INESHeader.read: prg_rom of a cartridge with one PRG bank
PrgBank == 16384

\* the instructions MPU.execute runs between two PPU.render calls
Budget == 10

\* MPU.load: byte o of the PRG goes to (0x8000 + o) & 0xFFFF (RAM.write masks
\* the address and maps none from 0x8000 on) while prg_read_size, which starts
\* at 1, is below prg_size, so the last byte is left out; a PRG of at most
\* 16K is then copied from store[0x8000:0xBFFF] to 0xC000 on
MPU_load(m, prg, prg_size) ==
    LET offset(a) == (a - 32768) % 65536
        read(a) == IF offset(a) \in DOMAIN prg /\ offset(a) + 1 < prg_size
                   THEN prg[offset(a)]
                   ELSE ListGet(m.ram, a)
        copied(a) == IF prg_size <= 16384 /\ a >= 49152 /\ a <= 65534
                     THEN read(a - 16384)
                     ELSE read(a)
        cells == (DOMAIN m.ram) \cup {(32768 + o) % 65536 : o \in DOMAIN prg}
                                \cup {(49152 + o) % 65536 : o \in DOMAIN prg}
    IN  [m EXCEPT !.ram = [a \in {k \in cells : copied(k) # 0} |-> copied(a)]]

\* the exception classes of exc/core.py are taken to be unrelated: an except
\* clause for cls catches e exactly when e is a cls
Catches(cls, e) == e = cls

\* the cartridges of the runs
\*   "late":  wait for vblank on 0x2002, pass a scanline, then enable NMI
\*   "early": enable NMI at once and spin
\*   "far":   reset to 0xFFF8, a BCC +127 with carry clear
\*   "trap":  as "late", with an unmapped opcode where the NMI vector points
\* the others have an RTI at 0x8020 for the NMI vector
Cartridge(name) ==
    LET handler == Bytes(32, <<64>>)
        vectors(lo, hi, irq) == Bytes(16378, <<32, 128, lo, hi, irq>>)
    IN  CASE name = "late" ->
               Bytes(0, <<173, 2, 32, 16, 250,
                          234, 234, 234, 234, 234, 234, 234, 234, 234, 234,
                          169, 128, 141, 0, 32, 76, 20, 128>>)
               @@ handler @@ vectors(0, 128, 0)
          [] name = "early" ->
               Bytes(0, <<169, 128, 141, 0, 32, 76, 5, 128>>)
               @@ handler @@ vectors(0, 128, 0)
          [] name = "far" ->
               Bytes(16376, <<144, 127>>)
               @@ handler @@ vectors(248, 255, 16)
          [] name = "trap" ->
               Bytes(0, <<173, 2, 32, 16, 250,
                          234, 234, 234, 234, 234, 234, 234, 234, 234, 234,
                          169, 128, 141, 0, 32, 76, 20, 128>>)
               @@ Bytes(32, <<2>>) @@ vectors(0, 128, 0)

Cartridges == {"late", "early", "far", "trap"}

InitSys ==
    \E name \in Cartridges :
       /\ \E m0 \in {MPU_load(PowerOn, Cartridge(name), PrgBank)} :
             Commit0(MPU_reset(m0))
       /\ ret = 0
       /\ sys = [pos |-> "events", i |-> 0]
       /\ obs = ObsInit(name)

\* the head of the loop: a QUIT event raises EndOfExecution, which ends
\* start(); otherwise the instruction budget begins
SysEvents ==
    /\ sys.pos = "events"
    /\ obs.frames < MaxFrames
    /\ \E quit \in BOOLEAN :
          IF quit
          THEN /\ Commit(Raise(Machine, "EndOfExecution"))
               /\ sys' = [pos |-> "ended", i |-> 0]
          ELSE /\ Commit(Machine)
               /\ sys' = [pos |-> "budget", i |-> 0]
    /\ obs' = [Observe(<<"events", 0, 0>>, Machine, 0, FALSE)
                 EXCEPT !.n = obs.n]
    /\ UNCHANGED ret

\* one pass of the for loop: execute; ReturnFromInterrupt is passed over,
\* any other exception leaves the while loop
SysExecute ==
    /\ sys.pos = "budget"
    /\ sys.i < Budget
    /\ \E m2 \in {MPU_execute(Machine)} :
       IF m2.exc = "none" \/ Catches("ReturnFromInterrupt", m2.exc)
       THEN /\ Commit([m2 EXCEPT !.exc = "none"])
            /\ sys' = IF sys.i + 1 < Budget
                      THEN [pos |-> "budget", i |-> sys.i + 1]
                      ELSE [pos |-> "nmi", i |-> 0]
       ELSE /\ Commit(m2)
            /\ sys' = [pos |-> "ended", i |-> sys.i]
    /\ obs' = [Observe(<<"execute", 0, 0>>, Machine, 0, FALSE)
                 EXCEPT !.n = obs.n]
    /\ UNCHANGED ret

\* the scheduler's own interrupt: with NMI enabled and vblank set it calls
\* MPU.nmi and executes one instruction; the handler of ReturnFromInterrupt
\* assigns to the read-only property vblank, and the break in the finally
\* clause discards that AttributeError and any exception of execute
SysNmi ==
    /\ sys.pos = "nmi"
    /\ IF ppu.ctrl.nmi # 0 /\ ppu.status.vblank = 1
       THEN /\ \E m2 \in {MPU_execute(MPU_nmi(Machine))} :
                  Commit([m2 EXCEPT !.exc = "none"])
            /\ obs' = [Observe(<<"nmi", 0, 0>>, Machine, 1, FALSE)
                         EXCEPT !.n = obs.n]
       ELSE /\ Commit(Machine)
            /\ obs' = [Observe(<<"no nmi", 0, 0>>, Machine, 0, FALSE)
                         EXCEPT !.n = obs.n]
    /\ sys' = [pos |-> "render", i |-> 0]
    /\ UNCHANGED ret

\* PPU.render; RaisedNMI and TypeError are caught nowhere inside the loop
SysRender ==
    /\ sys.pos = "render"
    /\ \E m2 \in {PPU_render(Machine)} :
       /\ Commit(m2)
       /\ sys' = IF m2.exc = "none" THEN [pos |-> "events", i |-> 0]
                 ELSE [pos |-> "ended", i |-> 0]
       /\ obs' = [Observe(<<"render", 0, 0>>, Machine,
                          IF m2.exc = "RaisedNMI" THEN 1 ELSE 0,
                          ppu.scanline > 260) EXCEPT !.n = obs.n]
    /\ UNCHANGED ret

NextSys == SysEvents \/ SysExecute \/ SysNmi \/ SysRender

SpecSys == InitSys /\ [][NextSys]_vars

----------------------------------------------------------------------------
(* The MPU driven directly: MPU.reset, MPU.execute and MPU.nmi called on   *)
(* a memory that MPU.load filled from a PRG image.  The image is one of a  *)
(* family of short programs: a prefix that brings the registers and the    *)
(* flags to chosen values, a jump, and the instructions under study.       *)

MaxSteps == 18
MaxNmis == 1
MaxResets == 1

\* bytes the programs use as register values and operands
ByteSamples == {0, 1, 64, 127, 128, 255}

\* the operand bytes that follow an opcode of the given addressing mode:
\* zero-page operands name 0x10, pointers sit at 0x20 and at 0x0400, and the
\* data is at 0x0300 (plus the index register where the mode adds one)
OperandBytes(mode, mm) ==
    CASE mode \in {"IMM", "REL"} -> <<mm>>
      [] mode \in {"ZP", "ZPX", "ZPY"} -> <<16>>
      [] mode \in {"ZPIX", "ZPIY"} -> <<32>>
      [] mode \in {"ABS", "ABSX", "ABSY"} -> <<0, 3>>
      [] mode = "ABSIX" -> <<0, 4>>
      [] OTHER -> <<>>

\* the address the operand of the given mode is meant to name
EffAddr(mode, x, y) ==
    CASE mode = "ZP" -> 16
      [] mode = "ZPX" -> 16 + x
      [] mode = "ZPY" -> 16 + y
      [] mode = "ABSX" -> 768 + x
      [] mode \in {"ABSY", "ZPIY"} -> 768 + y
      [] OTHER -> 768

\* the memory cells an instruction of the given mode needs: its pointer, if
\* any, and the operand byte mm
DataCells(mode, x, y, mm) ==
    CASE mode \in {"IMM", "REL", "ACC", "IMPLIED"} -> EmptyStore
      [] mode = "ZPIY" -> Bytes(32, <<0, 3>>) @@ (768 + y) :> mm
      [] mode = "ZPIX" -> Bytes(32 + x, <<0, 3>>) @@ 768 :> mm
      [] mode = "ABSIX" -> Bytes(1024 + x, <<0, 3>>) @@ 768 :> mm
      [] OTHER -> EffAddr(mode, x, y) :> mm

\* an instruction: the opcode and its operand bytes
Instruction(op, mm) == <<op>> \o OperandBytes(LookupTable(op)[2], mm)

RECURSIVE Assemble(_, _)
Assemble(ops, mm) ==
    IF ops = <<>> THEN <<>>
    ELSE Instruction(Head(ops), mm) \o Assemble(Tail(ops), mm)

\* the programs.  kind names the family, ops the opcodes under study, p the
\* status byte, a, x, y the registers, m the operand, s the address of the
\* code under study, t a jump target, irq whether NMI and reset occur
AluScenarios ==
    {[kind |-> "alu", ops |-> <<op>>, p |-> c, a |-> a, x |-> 4, y |-> 2,
      m |-> mm, s |-> 36864, t |-> 0, irq |-> FALSE] :
       op \in {o \in DOMAIN MappedOpcodes :
                 MappedOpcodes[o][1] \in {"adc", "sbc", "cmp", "cpx", "cpy"}},
       a \in ByteSamples \ {64}, mm \in ByteSamples \ {64}, c \in {0, 1}}

ShiftScenarios ==
    {[kind |-> "shift", ops |-> pair, p |-> c, a |-> v, x |-> 4, y |-> 2,
      m |-> v, s |-> 36864, t |-> 0, irq |-> FALSE] :
       pair \in {<<o, o>> : o \in {6, 10, 14, 22, 30}}
                \cup {<<o, o - 64>> : o \in {102, 106, 110, 118, 126}}
                \cup {<<o>> : o \in {38, 42, 46, 54, 62, 70, 74, 78, 86, 94}},
       v \in ByteSamples, c \in {0, 1}}

BranchScenarios ==
    {[kind |-> "branch", ops |-> <<op>>, p |-> p, a |-> 0, x |-> 0, y |-> 0,
      m |-> d, s |-> s, t |-> 0, irq |-> (op = 144 /\ s = 36864)] :
       op \in {16, 48, 80, 112, 144, 176, 208, 240},
       d \in {0, 5, 127, 128, 251, 255}, p \in {0, 195},
       s \in {16, 36864, 65520}}

StackScenarios ==
    {[kind |-> "stack", ops |-> <<8, 40>>, p |-> p, a |-> 0, x |-> 0,
      y |-> 0, m |-> 0, s |-> 36864, t |-> 0, irq |-> FALSE] :
       p \in 0 .. 255}

CallScenarios ==
    {[kind |-> "call", ops |-> <<32>>, p |-> 0, a |-> 0, x |-> 0, y |-> 0,
      m |-> 0, s |-> s, t |-> t, irq |-> (t = 4660)] :
       s \in {512, 36864}, t \in {4660, 49152, 65535}}

\* TXS, then three pushes (a, m, y) and four pulls: x = 1 makes the pushes
\* pass 0x0100, x = 255 makes the last pull pass 0x01FF
SeqScenarios ==
    {[kind |-> "seq", ops |-> <<154>>, p |-> 0, a |-> v[1], x |-> x,
      y |-> v[3], m |-> v[2], s |-> 36864, t |-> 0, irq |-> FALSE] :
       v \in {<<17, 34, 51>>, <<255, 0, 128>>},
       x \in {0, 1, 2, 128, 255}}

\* ORA, AND and EOR in every mode the table gives them
LogicScenarios ==
    {[kind |-> "logic", ops |-> <<op>>, p |-> 0, a |-> a, x |-> 4, y |-> 2,
      m |-> mm, s |-> 36864, t |-> 0, irq |-> FALSE] :
       op \in {o \in DOMAIN MappedOpcodes :
                 MappedOpcodes[o][1] \in {"ora", "and", "eor"}},
       a \in {0, 85, 255}, mm \in {0, 15, 255}}

\* one register transfer (TAX, TAY, TXA, TYA, TSX, TXS) from each flag state
\* of sign and zero and from register bytes of either sign
TransferScenarios ==
    {[kind |-> "transfer", ops |-> <<op>>, p |-> p, a |-> v[1], x |-> v[2],
      y |-> v[3], m |-> 0, s |-> 36864, t |-> 0, irq |-> FALSE] :
       op \in {138, 152, 154, 168, 170, 186},
       p \in {0, 2, 128, 195},
       v \in {<<0, 128, 1>>, <<128, 1, 0>>, <<1, 0, 128>>, <<255, 127, 64>>}}

\* TXS, then BRK: x = 1 makes the three pushes pass 0x0100
BrkScenarios ==
    {[kind |-> "brk", ops |-> <<154, 0>>, p |-> p, a |-> 0, x |-> x,
      y |-> 0, m |-> 0, s |-> s, t |-> 0, irq |-> FALSE] :
       p \in {0, 1, 16, 195, 255}, x \in {1, 2, 128, 255},
       s \in {36864, 37117}}

\* one load through an indexed or indirect mode whose operand t and index
\* are chosen: LDA zp,X; LDX zp,Y; LDA abs,X; LDA abs,Y; LDA (zp),Y and
\* LDA (zp,X), with sums that stay in range and sums that pass 0xFF or 0xFFFF
WrapScenarios ==
    {[kind |-> "wrap", ops |-> <<q[1]>>, p |-> 0, a |-> 0,
      x |-> IF LookupTable(q[1])[2] \in {"ZPX", "ABSX", "ZPIX"}
            THEN q[3] ELSE 0,
      y |-> IF LookupTable(q[1])[2] \in {"ZPY", "ABSY", "ZPIY"}
            THEN q[3] ELSE 0,
      m |-> 0, s |-> 36864, t |-> q[2], irq |-> FALSE] :
       q \in ({181, 182} \X {16, 240, 255} \X {1, 32, 255})
              \cup ({185, 189} \X {768, 1023, 65280, 65535} \X {1, 255})
              \cup ({177} \X {32, 255} \X {0, 2})
              \cup ({161} \X {32, 240, 255} \X {0, 15, 32})}

\* the cell the operand t with the index r names in the given mode: the
\* zero-page sum wraps to 8 bits, the absolute sum to 16 bits
WrapAddr(mode, t, r) ==
    IF mode \in {"ZPX", "ZPY", "ZPIX"} THEN (t + r) % 256
    ELSE IF mode = "ZPIY" THEN t
    ELSE (t + r) % 65536

\* the memory of a "wrap" program: 0xAA in the cell the load is meant to
\* reach and 0x55 in the cells next to a missed wrap; for the indirect modes
\* the pointer 0x0300 with its high byte at (P + 1) % 256, and the high byte
\* 0x05 in the cell P + 1 beyond the zero page
WrapCells(sc) ==
    LET mode == LookupTable(sc.ops[1])[2]
        r == sc.x + sc.y
        P == WrapAddr(mode, sc.t, r)
    IN  CASE mode \in {"ZPX", "ZPY"} -> P :> 170 @@ (sc.t + r) :> 85
          [] mode \in {"ABSX", "ABSY"} ->
                P :> 170 @@ [c \in {0, 254, 255, 256} |-> 85]
          [] mode = "ZPIY" ->
                P :> 0 @@ ((P + 1) % 256) :> 3 @@ (P + 1) :> 5
                @@ (768 + sc.y) :> 170 @@ (1280 + sc.y) :> 85
          [] mode = "ZPIX" ->
                P :> 0 @@ ((P + 1) % 256) :> 3
                @@ (sc.t + r) :> 0 @@ (sc.t + r + 1) :> 5
                @@ 768 :> 170 @@ 1280 :> 85

\* STA 0x2006, which sets the write toggle, then one store (STA, STX or STY)
\* with the operand t: an address, or for the indirect modes the place of a
\* pointer to 0x2000.  The indices 2 and 4 make the indexed and indirect
\* stores land on the ports 0x2002 and 0x2004 or on a mirror
StoreScenarios ==
    {[kind |-> "store", ops |-> <<141, q[1]>>, p |-> 0, a |-> 33,
      x |-> q[3], y |-> q[3], m |-> 0, s |-> 36864, t |-> q[2],
      irq |-> FALSE] :
       q \in ({153, 157} \X {768, 8192, 8200} \X {2, 4})
              \cup ({140, 141, 142} \X {768, 8194, 8202} \X {2})
              \cup ({132, 133, 134, 148, 149, 150} \X {16} \X {2, 4})
              \cup ({129, 145} \X {32} \X {2, 4})}

\* the address the store of a "store" program is meant to write
StoreAddr(sc) ==
    LET mode == LookupTable(sc.ops[2])[2] IN
    CASE mode \in {"ABS", "ZP"} -> sc.t
      [] mode \in {"ZPX", "ZPY"} -> (sc.t + sc.x) % 256
      [] mode \in {"ABSX", "ABSY"} -> (sc.t + sc.x) % 65536
      [] OTHER -> 8192 + sc.x

\* the pointer of an indirect store: 0x2000 at t for (zp),Y, the port
\* itself at t + x for (zp,X)
StoreCells(sc) ==
    LET mode == LookupTable(sc.ops[2])[2] IN
    CASE mode = "ZPIY" -> Bytes(sc.t, <<0, 32>>)
      [] mode = "ZPIX" -> Bytes(sc.t + sc.x, <<sc.x, 32>>)
      [] OTHER -> EmptyStore

Scenarios ==
    AluScenarios \cup ShiftScenarios \cup BranchScenarios
    \cup StackScenarios \cup CallScenarios \cup SeqScenarios
    \cup LogicScenarios \cup TransferScenarios \cup BrkScenarios
    \cup WrapScenarios \cup StoreScenarios

\* the memory a program asks for, by CPU address: the prefix at 0x8000
\* (LDA #p, PHA, LDA #a, LDX #x, LDY #y, PLP, JMP s), the code under study at
\* s followed by an unmapped opcode, an RTI at 0x8100, and the vectors
Image(sc) ==
    LET code == IF sc.kind = "call"
                THEN Bytes(sc.s, <<32, sc.t % 256, sc.t \div 256, 2>>)
                     @@ sc.t :> 96
                ELSE IF sc.kind = "seq"
                THEN Bytes(sc.s, <<154, 72, 169, sc.m, 72, 169, sc.y, 72,
                                   104, 104, 104, 104, 2>>)
                ELSE IF sc.kind = "wrap"
                THEN Bytes(sc.s, <<sc.ops[1], sc.t % 256>>
                                 \o (IF sc.t > 255 THEN <<sc.t \div 256>>
                                     ELSE <<>>) \o <<2>>)
                ELSE IF sc.kind = "store"
                THEN Bytes(sc.s, <<141, 6, 32, sc.ops[2], sc.t % 256>>
                                 \o (IF sc.t > 255 THEN <<sc.t \div 256>>
                                     ELSE <<>>) \o <<2>>)
                ELSE Bytes(sc.s, Assemble(sc.ops, sc.m) \o <<2>>)
        data == IF sc.kind = "wrap" THEN WrapCells(sc)
                ELSE IF sc.kind = "store" THEN StoreCells(sc)
                ELSE DataCells(LookupTable(sc.ops[1])[2], sc.x, sc.y, sc.m)
        prefix == Bytes(32768, <<169, sc.p, 72, 169, sc.a, 162, sc.x,
                                 160, sc.y, 40,
                                 76, sc.s % 256, sc.s \div 256>>)
        handler == 33024 :> 64
        vectors == Bytes(65530, <<0, 129, 0, 128, 0, 129>>)
    IN  code @@ data @@ prefix @@ handler @@ vectors

\* the PRG image that MPU.load turns into Image(sc): byte k of the image goes
\* to (0x8000 + k) & 0xFFFF
PrgImage(sc) ==
    LET img == Image(sc) IN
    [k \in {(a - 32768) % 65536 : a \in DOMAIN img} |->
        img[(k + 32768) % 65536]]

ObsMpuInit(sc) ==
    [sc |-> sc, n |-> 0, nmis |-> 0, resets |-> 0,
     op |-> <<"init", 0, 0>>, op2 |-> <<"init", 0, 0>>,
     pre |-> PowerOn, pre2 |-> PowerOn]

\* the observers after one more call: op is <<call, PC before, opcode>>
ObserveMpu(op) ==
    [obs EXCEPT !.n = @ + 1, !.op = op, !.op2 = obs.op,
                !.pre = Machine, !.pre2 = obs.pre]

\* System.load with a PRG of five banks, then MPU.reset
InitMpu ==
    \E sc \in Scenarios :
      /\ \E m0 \in {MPU_load(PowerOn, PrgImage(sc), 5 * PrgBank)} :
            Commit0(MPU_reset(m0))
      /\ ret = 0
      /\ sys = [pos |-> "run", i |-> 0]
      /\ obs = ObsMpuInit(sc)

\* the caller goes on after ReturnFromInterrupt, as System.start does, and
\* stops at any other exception
Running == exc \in {"none", "ReturnFromInterrupt"}

\* MPU.execute
MpuStep ==
    /\ Running
    /\ obs.n < MaxSteps
    /\ \E m2 \in {MPU_execute([Machine EXCEPT !.exc = "none"])} : Commit(m2)
    /\ obs' = ObserveMpu(<<"step", mpu.pc, Bus_read(Machine, mpu.pc).val>>)
    /\ UNCHANGED <<ret, sys>>

\* MPU.nmi
MpuNmi ==
    /\ Running
    /\ obs.sc.irq
    /\ obs.nmis < MaxNmis
    /\ \E m2 \in {MPU_nmi([Machine EXCEPT !.exc = "none"])} : Commit(m2)
    /\ obs' = [ObserveMpu(<<"nmi", mpu.pc, 0>>) EXCEPT !.nmis = @ + 1]
    /\ UNCHANGED <<ret, sys>>

\* MPU.reset
MpuReset ==
    /\ Running
    /\ obs.sc.irq
    /\ obs.resets < MaxResets
    /\ \E m2 \in {MPU_reset([Machine EXCEPT !.exc = "none"])} : Commit(m2)
    /\ obs' = [ObserveMpu(<<"reset", mpu.pc, 0>>) EXCEPT !.resets = @ + 1]
    /\ UNCHANGED <<ret, sys>>

NextMpu == MpuStep \/ MpuNmi \/ MpuReset

SpecMpu == InitMpu /\ [][NextMpu]_vars

----------------------------------------------------------------------------
(* Properties of the bus, the mirrors, the DMA and the PPU ports.          *)

\* the last operation was Bus.read on an address that selects port p
LastRead(p) == obs.op[1] = "read" /\ Port(obs.op[2]) = p

\* the last operation was Bus.write on an address that selects port p
LastWrite(p) == obs.op[1] = "write" /\ Port(obs.op[2]) = p

\* C1: for every address a in 0x0000..0x1FFF and byte v, bus.write(a, v)
\* followed by bus.read(a mod 0x0800) returns v
C1_WorkRamMirrored ==
    (obs.op[1] = "write" /\ obs.op[2] \in 0 .. 8191 /\ exc = "none")
    => Bus_read(Machine, obs.op[2] % 2048).val = obs.op[3]

\* sample addresses of the mirror window 0x2008..0x3FFF
MirrorSamples ==
    {8200, 8201, 12282, 8203, 8204, 12293, 16382, 16383, 16376, 8207}

\* C2: for every address a in 0x2008..0x3FFF and every state, bus.read(a)
\* and bus.write(a, v) return and leave what bus.read and bus.write on
\* 0x2000 + (a mod 8) return and leave
C2_PortsMirrored ==
    /\ exc = "none" =>
         \A a \in MirrorSamples :
            LET b == 8192 + (a % 8) IN
            /\ Bus_read(Machine, a) = Bus_read(Machine, b)
            /\ \A d \in FamData(obs.fam) :
                  Bus_write(Machine, a, d) = Bus_write(Machine, b, d)
    /\ (obs.op[1] = "write" /\ obs.op[2] \in 8200 .. 16383)
         => Machine = Bus_write(obs.pre, 8192 + (obs.op[2] % 8), obs.op[3])
    /\ (obs.op[1] = "read" /\ obs.op[2] \in 8200 .. 16383)
         => [m |-> Machine, val |-> ret]
            = Bus_read(obs.pre, 8192 + (obs.op[2] % 8))

\* C2 witness: a write to the mirror 0x3FFE acted as a first write to 0x2006
C2_Witness ==
    /\ obs.op = <<"write", 16382, 63>>
    /\ ppu.w
    /\ ppu.t = 16128
    /\ obs.pre.ppu.t = 0

\* C3: a bus read that selects 0x2002, 0x2004 or 0x2007 is served by the
\* PPU; a read of 0x2007 with v below 0x3F00 returns the buffered byte and
\* refills the buffer from VRAM, and with v at or above 0x3F00 returns the
\* VRAM byte
C3_ReadPortsDelegated ==
    /\ (LastRead(8194) /\ exc = "none")
         => [m |-> Machine, val |-> ret] = PPUStatus_read(obs.pre, 8194)
    /\ (LastRead(8196) /\ exc = "none")
         => [m |-> Machine, val |-> ret] = OAM_read(obs.pre, 8196)
    /\ (LastRead(8199) /\ exc = "none")
         => IF obs.pre.ppu.v < 16128
            THEN /\ ret = obs.pre.ppu.data_buffer
                 /\ ppu.data_buffer = PPURAM_read(obs.pre, obs.pre.ppu.v).val
            ELSE ret = PPURAM_read(obs.pre, obs.pre.ppu.v).val

\* the 256 bytes of CPU page p in machine m
PageByte(m, p, i) == ListGet(m.ram, Shl(p, 8) + i)

\* C4: with the OAM address pointer at 0, when bus.write(0x4014, p) returns,
\* OAM byte i is the CPU RAM byte at (p << 8) + i for every i in 0..255, and
\* sprite n decodes to the bytes 4n..4n+3 of the page
C4_DmaCopiesPage ==
    (LastWrite(16404) /\ obs.pre.oam.addr = 0)
    => /\ exc = "none"
       /\ \A i \in 0 .. 255 :
             ListGet(oam.store, i) = PageByte(obs.pre, obs.op[3], i)
       /\ \A n \in 0 .. 63 :
             OAMRAM_read(Machine, n)
             = [y |-> PageByte(obs.pre, obs.op[3], 4 * n),
                tile_num |-> PageByte(obs.pre, obs.op[3], 4 * n + 1),
                attributes |->
                    OAMAttributes(PageByte(obs.pre, obs.op[3], 4 * n + 2)),
                x |-> PageByte(obs.pre, obs.op[3], 4 * n + 3)]

\* C4 witness: page 2 with bytes set at 0x0201 or 0x02FF was copied
C4_Witness ==
    /\ LastWrite(16404)
    /\ obs.op[3] = 2
    /\ obs.pre.oam.addr = 0
    /\ ListGet(oam.store, 255) = 123

\* C5: the DMA copy goes through the OAM-data port: with the pointer at k
\* before the write to 0x4014, byte i of the page lands at OAM[(k + i) mod
\* 256]
C5_DmaThroughDataPort ==
    (LastWrite(16404) /\ exc = "none")
    => \A i \in 0 .. 255 :
          ListGet(oam.store, (obs.pre.oam.addr + i) % 256)
          = PageByte(obs.pre, obs.op[3], i)

\* C8: after a read of 0x2002, writing h then l to 0x2006 leaves
\* v = ((h & 0x3F) << 8) | l whatever t and v were; a single write changes
\* only the high half of t and leaves v alone
C8_AddressPair ==
    exc = "none" =>
    \A h \in FamData(obs.fam), l \in FamData(obs.fam) :
       LET s1 == Bus_read(Machine, 8194).m
           s2 == Bus_write(s1, 8198, h)
           s3 == Bus_write(s2, 8198, l)
       IN  /\ s3.ppu.v = BitOr(Shl(BitAnd(h, 63), 8), l)
           /\ s2.ppu.v = s1.ppu.v
           /\ BitAnd(s2.ppu.t, 255) = BitAnd(s1.ppu.t, 255)

\* C9: 0x2005 and 0x2006 share one write toggle: it is set exactly after an
\* odd number of writes to the two ports since the last read of 0x2002, a
\* write to either port after a first write to the other is a second write,
\* and a first write to 0x2005 followed by a write to 0x2006 commits t to v
C9_SharedToggle ==
    exc = "none" =>
    /\ ppu.w <=> (obs.toggles % 2 = 1)
    /\ ~Bus_read(Machine, 8194).m.ppu.w
    /\ ~ppu.w =>
         \A d1 \in FamData(obs.fam), d2 \in FamData(obs.fam) :
            LET s1 == Bus_write(Machine, 8197, d1)
                s2 == Bus_write(s1, 8198, d2)
                u1 == Bus_write(Machine, 8198, d1)
                u2 == Bus_write(u1, 8197, d2)
            IN  /\ s1.ppu.w /\ ~s2.ppu.w /\ s2.ppu.v = s2.ppu.t
                /\ u1.ppu.w /\ ~u2.ppu.w /\ u2.ppu.v = u1.ppu.v

\* C9 witness: a first write to 0x2005 and then a write to 0x2006
C9_Witness ==
    /\ obs.op2 = <<"write", 8197, 63>>
    /\ obs.op = <<"write", 8198, 32>>
    /\ obs.toggles = 2
    /\ ~ppu.w
    /\ ppu.v = 32

\* C10: a read of 0x2002 returns vblank, sprite-0 hit and sprite overflow in
\* bits 7, 6 and 5 as they were, clears vblank and the write toggle, and
\* changes nothing else
C10_StatusRead ==
    LastRead(8194)
    => /\ ret = obs.pre.ppu.status.vblank * 128
              + obs.pre.ppu.status.sprite_0_hit * 64
              + obs.pre.ppu.status.sprite_overflow * 32
       /\ Machine = [obs.pre EXCEPT !.ppu.status.vblank = 0, !.ppu.w = FALSE]

\* C10 witness: the read found vblank and the toggle set
C10_Witness ==
    /\ LastRead(8194)
    /\ ret = 128
    /\ obs.pre.ppu.w
    /\ obs.pre.ppu.t = 8192
    /\ ppu.t = 8192

----------------------------------------------------------------------------
(* Properties of the frame scheduler and of the interrupt entry.           *)

C7_NmiRtiRoundTrip ==
    LET n == MPU_nmi(Machine)
        r == MPU_execute(n)
    IN  (exc = "none" /\ Bus_read(n, n.mpu.pc).val = 64)
        => /\ ListGet(n.ram, mpu.sp) = pc_hi(Machine)
           /\ ListGet(n.ram, 256 + ((mpu.sp - 1) % 256)) = pc_lo(Machine)
           /\ ListGet(n.ram, 256 + ((mpu.sp - 2) % 256))
              = FlagRegister_to_int(mpu.flags)
           /\ n.mpu.sp = 256 + ((mpu.sp - 3) % 256)
           /\ n.mpu.pc = ListGet(ram, 65530) + 256 * ListGet(ram, 65531)
           /\ r.exc = "ReturnFromInterrupt"
           /\ r.mpu.pc = mpu.pc
           /\ r.mpu.flags = mpu.flags
           /\ r.mpu.sp = mpu.sp

----------------------------------------------------------------------------
(* Properties of the MPU instructions.                                     *)

\* the last call was MPU.execute and it ran the handler called name
LastStep(name) == obs.op[1] = "step" /\ LookupTable(obs.op[3])[1] = name

\* the call before the last was MPU.execute and it ran the handler name
PrevStep(name) == obs.op2[1] = "step" /\ LookupTable(obs.op2[3])[1] = name

\* the byte an instruction of the given mode works on in machine m: the
\* accumulator, or the memory cell its operand names
OperandValue(m, mode) ==
    IF mode = "ACC" THEN m.mpu.a
    ELSE ListGet(m.ram, EffAddr(mode, obs.sc.x, obs.sc.y))

\* d as a two's-complement value in -128 .. 127
Signed(d) == IF d >= 128 THEN d - 256 ELSE d

\* C11: when a JSR stored at address s with target t is executed and the
\* next step runs from t, where an RTS is stored, then PC is s + 3 modulo
\* 2^16, the stack pointer is what it was before the JSR, and the two bytes
\* the JSR pushed are the high and then the low byte of s + 2
C11_JsrRtsRoundTrip ==
    LET s == obs.op2[2]
        t == ListGet(obs.pre2.ram, (s + 1) % 65536)
             + 256 * ListGet(obs.pre2.ram, (s + 2) % 65536)
        sp == obs.pre2.mpu.sp
    IN  (/\ obs.op2[1] = "step" /\ s \in 0 .. 65535
         /\ ListGet(obs.pre2.ram, s) = 32
         /\ obs.op[1] = "step"
         /\ ListGet(obs.pre.ram, t) = 96)
        => /\ exc = "none"
           /\ mpu.pc = (s + 3) % 65536
           /\ mpu.sp = sp
           /\ ListGet(obs.pre.ram, sp) = ((s + 2) % 65536) \div 256
           /\ ListGet(obs.pre.ram, 256 + ((sp - 1) % 256)) = (s + 2) % 256

\* C12: PHP followed by PLP leaves all seven flags and the stack pointer as
\* they were, for every combination of flag values, and the byte PHP pushed
\* has sign in bit 7, overflow in bit 6, 0 in bit 5, break in bit 4, decimal
\* in bit 3, interrupt-disable in bit 2, zero in bit 1 and carry in bit 0
C12_StatusRoundTrip ==
    (LastStep("plp") /\ PrevStep("php")) =>
        LET f == obs.pre2.mpu.flags
            b == ListGet(obs.pre.ram, obs.pre2.mpu.sp)
        IN  /\ exc = "none"
            /\ mpu.flags = f
            /\ mpu.sp = obs.pre2.mpu.sp
            /\ b \in 0 .. 255
            /\ Bit(b, 7) = f.sign /\ Bit(b, 6) = f.overflow
            /\ Bit(b, 5) = 0 /\ Bit(b, 4) = f.break_
            /\ Bit(b, 3) = f.decimal /\ Bit(b, 2) = f.interrupt
            /\ Bit(b, 1) = f.zero /\ Bit(b, 0) = f.carry

\* PHP and PLP have run with sign, break, interrupt-disable and carry set and
\* overflow, decimal and zero clear
C12_Witness ==
    /\ LastStep("plp") /\ PrevStep("php")
    /\ obs.pre2.mpu.flags = [sign |-> 1, overflow |-> 0, break_ |-> 1,
                             decimal |-> 0, interrupt |-> 1, zero |-> 0,
                             carry |-> 1]
    /\ mpu.flags = obs.pre2.mpu.flags

\* C13: where the next instruction is ADC #m, executing it yields the same
\* accumulator and the same carry, zero, sign and overflow flags as executing
\* SBC #(255 - m) in its place from the same registers and flags
C13_AdcSbcComplement ==
    (Running /\ mpu.pc \in 0 .. 65533
     /\ ListGet(ram, mpu.pc) = 105) =>
        \A adc \in {MPU_execute([Machine EXCEPT !.exc = "none"])} :
        \A sbc \in {MPU_execute(
                      [Machine EXCEPT
                         !.exc = "none",
                         !.ram = ListSet(ListSet(@, mpu.pc, 233), mpu.pc + 1,
                                         255 - ListGet(ram, mpu.pc + 1))])} :
            /\ adc.mpu.a = sbc.mpu.a
            /\ adc.mpu.flags.carry = sbc.mpu.flags.carry
            /\ adc.mpu.flags.zero = sbc.mpu.flags.zero
            /\ adc.mpu.flags.sign = sbc.mpu.flags.sign
            /\ adc.mpu.flags.overflow = sbc.mpu.flags.overflow

\* C14: a ROR step completes, and a ROL step that follows a ROR step on the
\* same operand leaves the operand byte and the carry flag as they were
\* before the ROR
C14_RorRolRoundTrip ==
    /\ LastStep("ror") => exc = "none"
    /\ (LastStep("rol") /\ PrevStep("ror") /\ obs.sc.kind = "shift") =>
          LET mode == LookupTable(obs.op[3])[2] IN
          /\ exc = "none"
          /\ OperandValue(Machine, mode) = OperandValue(obs.pre2, mode)
          /\ mpu.flags.carry = obs.pre2.mpu.flags.carry

\* C15: two successive ASL steps on the same operand byte v leave
\* (v << 2) mod 256 there, and the carry equal to bit 6 of v
C15_DoubleAsl ==
    (LastStep("asl") /\ PrevStep("asl") /\ obs.op[3] = obs.op2[3]
     /\ obs.sc.kind = "shift") =>
        LET mode == LookupTable(obs.op[3])[2]
            v == OperandValue(obs.pre2, mode)
        IN  /\ exc = "none"
            /\ OperandValue(Machine, mode) = (v * 4) % 256
            /\ mpu.flags.carry = Bit(v, 6)

\* the condition a branch handler tests, on the flags f
BranchCondition(name, f) ==
    CASE name = "bcc" -> f.carry = 0
      [] name = "bcs" -> f.carry = 1
      [] name = "beq" -> f.zero = 1
      [] name = "bne" -> f.zero = 0
      [] name = "bmi" -> f.sign = 1
      [] name = "bpl" -> f.sign = 0
      [] name = "bvc" -> f.overflow = 0
      [] name = "bvs" -> f.overflow = 1

\* C16: after a step that ran a branch opcode at s with displacement byte d,
\* PC is s + 2 when the condition does not hold and s + 2 + signed(d) modulo
\* 2^16 when it holds
C16_BranchTarget ==
    (obs.op[1] = "step" /\ LookupTable(obs.op[3])[2] = "REL"
     /\ obs.op[2] \in 0 .. 65533) =>
        LET s == obs.op[2]
            d == ListGet(obs.pre.ram, s + 1)
        IN  /\ exc = "none"
            /\ mpu.pc = IF BranchCondition(LookupTable(obs.op[3])[1],
                                           obs.pre.mpu.flags)
                        THEN (s + 2 + Signed(d)) % 65536
                        ELSE s + 2

\* C17: after an SBC step with accumulator A, operand M and carry C, the
\* accumulator is (A - M - (1 - C)) mod 256 and the carry is 1 exactly when
\* A - M - (1 - C) >= 0
C17_SbcResult ==
    (LastStep("sbc") /\ obs.sc.kind = "alu") =>
        LET r == obs.pre.mpu.a - obs.sc.m - (1 - obs.pre.mpu.flags.carry)
        IN  /\ exc = "none"
            /\ mpu.a = r % 256
            /\ mpu.flags.carry = IF r >= 0 THEN 1 ELSE 0

\* C18: after an ADC step with accumulator A, operand M and carry C, the
\* accumulator is (A + M + C) mod 256, the carry is 1 exactly when
\* A + M + C >= 256, zero says the new accumulator is 0 and sign is its bit 7
C18_AdcResult ==
    (LastStep("adc") /\ obs.sc.kind = "alu") =>
        LET r == obs.pre.mpu.a + obs.sc.m + obs.pre.mpu.flags.carry
        IN  /\ exc = "none"
            /\ mpu.a = r % 256
            /\ mpu.flags.carry = IF r >= 256 THEN 1 ELSE 0
            /\ mpu.flags.zero = IF r % 256 = 0 THEN 1 ELSE 0
            /\ mpu.flags.sign = Bit(r % 256, 7)

\* C19: after a CMP, CPX or CPY step with register value r and operand m,
\* zero is 1 iff r = m, sign is bit 7 of (r - m) mod 256, carry is 1 iff
\* r >= m, and the registers, the stack pointer and memory are unchanged
C19_Compare ==
    ((LastStep("cmp") \/ LastStep("cpx") \/ LastStep("cpy"))
     /\ obs.sc.kind = "alu") =>
        LET r == IF LastStep("cmp") THEN obs.pre.mpu.a
                 ELSE IF LastStep("cpx") THEN obs.pre.mpu.x
                 ELSE obs.pre.mpu.y
            m == obs.sc.m
        IN  /\ exc = "none"
            /\ mpu.flags.zero = IF r = m THEN 1 ELSE 0
            /\ mpu.flags.sign = Bit((r - m) % 256, 7)
            /\ mpu.flags.carry = IF r >= m THEN 1 ELSE 0
            /\ mpu.a = obs.pre.mpu.a /\ mpu.x = obs.pre.mpu.x
            /\ mpu.y = obs.pre.mpu.y /\ mpu.sp = obs.pre.mpu.sp
            /\ ram = obs.pre.ram

\* C20: the program counter is within 0 .. 0xFFFF and A, X and Y are within
\* 0 .. 0xFF
C20_RegistersInRange ==
    /\ mpu.pc \in 0 .. 65535
    /\ mpu.a \in 0 .. 255
    /\ mpu.x \in 0 .. 255
    /\ mpu.y \in 0 .. 255

----------------------------------------------------------------------------
(* Properties of the stack, the scanline counter, the dispatch table and   *)
(* the frame loop.                                                         *)

\* C21: the stack pointer addresses page 1 in every state; PHA writes the
\* accumulator at the pointer and then moves the pointer down by one within
\* the page, PLA moves it up by one within the page and then reads, TXS loads
\* 0x0100 + X, none of them raises; a PLA right after a PHA returns the pushed
\* byte and the pointer; and three pushes are pulled back in reverse order
C21_StackPage ==
    /\ mpu.sp \in 256 .. 511
    /\ LastStep("pha") =>
          /\ exc = "none"
          /\ ListGet(ram, obs.pre.mpu.sp) = obs.pre.mpu.a
          /\ mpu.sp = 256 + ((obs.pre.mpu.sp - 1) % 256)
    /\ LastStep("pla") =>
          /\ exc = "none"
          /\ mpu.sp = 256 + ((obs.pre.mpu.sp + 1) % 256)
          /\ mpu.a = ListGet(obs.pre.ram, mpu.sp)
    /\ LastStep("txs") => exc = "none" /\ mpu.sp = 256 + obs.pre.mpu.x
    /\ (LastStep("pla") /\ PrevStep("pha")) =>
          mpu.a = obs.pre2.mpu.a /\ mpu.sp = obs.pre2.mpu.sp
    /\ (obs.sc.kind = "seq" /\ LastStep("pla")) =>
          \A k \in 1 .. 3 :
             obs.op[2] = obs.sc.s + 7 + k =>
                mpu.a = <<obs.sc.y, obs.sc.m, obs.sc.a>>[k]

\* three pushes that pass 0x0100 have been pulled back and the pointer is
\* again at 0x0101
C21_Witness ==
    /\ obs.sc.kind = "seq" /\ obs.sc.x = 1
    /\ obs.op = <<"step", obs.sc.s + 10, 104>>
    /\ obs.pre.mpu.sp = 256
    /\ mpu.sp = 257
    /\ mpu.a = obs.sc.a
    /\ exc = "none"

\* C25: no call of MPU.execute ends with IllegalAddressingMode: the handler
\* of every mapped opcode accepts the addressing mode the table pairs it with
C25_TableModesAccepted ==
    LastStep(LookupTable(obs.op[3])[1]) => exc # "IllegalAddressingMode"

\* the opcode byte at the PC of machine m selects an unmapped table entry
UnmappedAt(m) ==
    \E r \in {Bus_read(m, m.mpu.pc)} :
       r.m.exc = "none" /\ LookupTable(r.val)[1] = "None"

\* machine m2 is machine m1 but for the PC and the PPU
SameButPc(m1, m2) ==
    /\ m2.mpu.a = m1.mpu.a /\ m2.mpu.x = m1.mpu.x /\ m2.mpu.y = m1.mpu.y
    /\ m2.mpu.flags = m1.mpu.flags /\ m2.mpu.sp = m1.mpu.sp
    /\ m2.ram = m1.ram /\ m2.vram = m1.vram /\ m2.oam = m1.oam

LastTick == obs.op[1] = "tick"

C23_OneLinePerTick ==
    (LastTick /\ exc \in {"none", "RaisedNMI"})
        => ppu.scanline = (obs.pre.ppu.scanline + 1) % 262

\* C27: a tick turns the vblank flag from 0 to 1 only on entry to vertical
\* blank, that is from scanline 240 or, at the latest, from scanline 241
C27_VblankSetOnEntry ==
    (LastTick /\ obs.pre.ppu.status.vblank = 0 /\ ppu.status.vblank = 1)
        => obs.pre.ppu.scanline \in {240, 241}

\* C28: the tick on the pre-render line clears vblank and sprite-0 hit and
\* re-arms the NMI guard, and it leaves the current VRAM address equal to the
\* temporary one when the background or the sprites are enabled in the mask
\* and as it was when both are disabled
C28_PreRenderTick ==
    (LastTick /\ obs.pre.ppu.scanline = 261) =>
        /\ ppu.status.vblank = 0
        /\ ppu.status.sprite_0_hit = 0
        /\ ~ppu.nmi_triggered
        /\ ppu.v = IF obs.pre.ppu.mask.bg_enable = 1
                      \/ obs.pre.ppu.mask.sprite_enable = 1
                   THEN obs.pre.ppu.t
                   ELSE obs.pre.ppu.v

\* C29: the current and the temporary VRAM address are within 0 .. 0x3FFF
C29_AddressesIn14Bits ==
    ppu.v \in 0 .. 16383 /\ ppu.t \in 0 .. 16383

\* the fields of a VRAM address: fine-y, coarse-y, coarse-x, and the
\* vertical and the horizontal nametable bit
FineY(v) == Shr(BitAnd(v, 28672), 12)
CoarseY(v) == Shr(BitAnd(v, 992), 5)
CoarseX(v) == BitAnd(v, 31)
NametableV(v) == Shr(BitAnd(v, 2048), 11)
NametableH(v) == Shr(BitAnd(v, 1024), 10)

\* C30: coarse_y_inc adds 1 to fine-y modulo 8; when fine-y was 7 it adds 1
\* to coarse-y, but from coarse-y 29 it sets coarse-y to 0 and toggles the
\* vertical nametable bit; otherwise coarse-y and that bit stay; coarse-x and
\* the horizontal nametable bit always stay
C30_VerticalIncrement ==
    obs.op[1] = "coarse_y_inc" =>
        \E v0 \in {obs.pre.ppu.v} :
           /\ FineY(ppu.v) = (FineY(v0) + 1) % 8
           /\ CoarseY(ppu.v) = IF FineY(v0) # 7 THEN CoarseY(v0)
                               ELSE IF CoarseY(v0) = 29 THEN 0
                               ELSE (CoarseY(v0) + 1) % 32
           /\ NametableV(ppu.v) = IF FineY(v0) = 7 /\ CoarseY(v0) = 29
                                  THEN 1 - NametableV(v0)
                                  ELSE NametableV(v0)
           /\ CoarseX(ppu.v) = CoarseX(v0)
           /\ NametableH(ppu.v) = NametableH(v0)

----------------------------------------------------------------------------
(* Properties of the OAM ports, the shifts, the transfers, BRK, the        *)
(* addressing modes, the stores and the bus address space.                 *)

\* C31: the OAM address pointer is within 0 .. 255 and no access to the OAM
\* ports fails
C31_OamPointerInRange ==
    oam.addr \in 0 .. 255 /\ exc # "IndexError"

\* the handlers that shift or rotate
ShiftOps == {"asl", "lsr", "rol", "ror"}

\* the byte that handler op makes of the byte v with the carry c
Shifted(op, v, c) ==
    CASE op = "asl" -> (2 * v) % 256
      [] op = "rol" -> ((2 * v) % 256) + c
      [] op = "lsr" -> (v \div 2)
      [] op = "ror" -> (v \div 2) + (128 * c)

\* C32: after ASL, LSR, ROL or ROR the step has completed, zero tells
\* whether the result is 0, sign is bit 7 of the result, and carry is the
\* bit that left the operand: bit 7 for ASL and ROL, bit 0 for LSR and ROR
C32_ShiftFlags ==
    \A op \in ShiftOps :
       (LastStep(op) /\ obs.sc.kind = "shift") =>
          \E mode \in {LookupTable(obs.op[3])[2]} :
          \E v \in {OperandValue(obs.pre, mode)} :
          \E res \in {Shifted(op, v, obs.pre.mpu.flags.carry)} :
             /\ exc = "none"
             /\ mpu.flags.zero = (IF res = 0 THEN 1 ELSE 0)
             /\ mpu.flags.sign = Bit(res, 7)
             /\ mpu.flags.carry = (IF op \in {"asl", "rol"} THEN Bit(v, 7)
                                   ELSE Bit(v, 0))

\* C33: after ASL, LSR, ROL or ROR on a memory operand the byte at the
\* effective address is the shifted or rotated byte and the accumulator is
\* what it was
C33_ShiftWritesBack ==
    \A op \in ShiftOps :
       (LastStep(op) /\ obs.sc.kind = "shift"
        /\ LookupTable(obs.op[3])[2] # "ACC") =>
          \E mode \in {LookupTable(obs.op[3])[2]} :
          \E v \in {OperandValue(obs.pre, mode)} :
             /\ exc = "none"
             /\ OperandValue(Machine, mode)
                = Shifted(op, v, obs.pre.mpu.flags.carry)
             /\ mpu.a = obs.pre.mpu.a

\* C34: TXS puts X into the stack pointer and leaves every flag as it was;
\* TAX, TAY, TXA, TYA and TSX set zero and sign from the byte they put into
\* the destination register
C34_TransferFlags ==
    /\ LastStep("txs") =>
          /\ exc = "none"
          /\ Mask(mpu.sp, 255) = obs.pre.mpu.x
          /\ mpu.flags = obs.pre.mpu.flags
    /\ \A op \in {"tax", "tay", "txa", "tya", "tsx"} :
          LastStep(op) =>
             \E dst \in {CASE op \in {"tax", "tsx"} -> mpu.x
                           [] op = "tay" -> mpu.y
                           [] OTHER -> mpu.a} :
                /\ exc = "none"
                /\ dst = (CASE op = "tax" -> obs.pre.mpu.a
                            [] op = "tay" -> obs.pre.mpu.a
                            [] op = "txa" -> obs.pre.mpu.x
                            [] op = "tya" -> obs.pre.mpu.y
                            [] op = "tsx" -> Mask(obs.pre.mpu.sp, 255))
                /\ mpu.flags.zero = (IF dst = 0 THEN 1 ELSE 0)
                /\ mpu.flags.sign = Bit(dst, 7)
                /\ \A f \in {"carry", "interrupt", "decimal", "break_",
                             "overflow"} :
                      mpu.flags[f] = obs.pre.mpu.flags[f]

\* the stack cell k pushes below the stack pointer sp
StackCell(sp, k) == 256 + ((Mask(sp, 255) + 256 - k) % 256)

\* C35: BRK pushes the high byte and the low byte of PC + 2, PC being the
\* program counter the handler finds (one past the opcode), and then the
\* status byte with bit 4 set, and leaves the stack pointer three lower,
\* modulo 256
C35_BrkPushes ==
    (LastStep("brk") /\ obs.sc.kind = "brk") =>
       \E back \in {(obs.op[2] + 1 + 2) % 65536} :
       \E sp \in {obs.pre.mpu.sp} :
          /\ exc = "none"
          /\ ListGet(ram, StackCell(sp, 0)) = back \div 256
          /\ ListGet(ram, StackCell(sp, 1)) = back % 256
          /\ Bit(ListGet(ram, StackCell(sp, 2)), 4) = 1
          /\ BitOr(ListGet(ram, StackCell(sp, 2)), 16)
             = BitOr(FlagRegister_to_int(obs.pre.mpu.flags), 16)
          /\ mpu.sp = StackCell(sp, 3)

\* the last call ran the load of a "wrap" program in one of the given modes
WrapStep(modes) ==
    /\ obs.sc.kind = "wrap"
    /\ obs.op[1] = "step"
    /\ obs.op[2] = obs.sc.s
    /\ LookupTable(obs.op[3])[2] \in modes

\* the register the load of a "wrap" program fills
Loaded == IF LookupTable(obs.op[3])[1] = "ldx" THEN mpu.x ELSE mpu.a

\* C36: a load through zp,X or zp,Y with operand ZZ and index r completes
\* and takes the byte of the cell (ZZ + r) % 256
C36_ZeroPageIndexWraps ==
    WrapStep({"ZPX", "ZPY"}) =>
       /\ exc = "none"
       /\ Loaded = ListGet(obs.pre.ram,
                           (obs.sc.t + obs.sc.x + obs.sc.y) % 256)

\* C37: a load through abs,X or abs,Y with base b and index r completes and
\* takes the byte of the cell (b + r) % 2^16
C37_AbsoluteIndexWraps ==
    WrapStep({"ABSX", "ABSY"}) =>
       /\ exc = "none"
       /\ Loaded = ListGet(obs.pre.ram,
                           (obs.sc.t + obs.sc.x + obs.sc.y) % 65536)

\* the pointer a (zp),Y or (zp,X) load is meant to follow: low byte at P,
\* high byte at (P + 1) % 256
ZeroPagePointer(m, P) ==
    256 * ListGet(m.ram, (P + 1) % 256) + ListGet(m.ram, P)

\* C38: a load through (zp),Y or (zp,X) completes and takes the byte the
\* pointer at P names, the pointer's high byte being the cell (P + 1) % 256:
\* P is ZZ and Y is added to the pointer for (zp),Y, P is (ZZ + X) % 256 for
\* (zp,X)
C38_PointerStaysInZeroPage ==
    WrapStep({"ZPIY", "ZPIX"}) =>
       \E P \in {(obs.sc.t + obs.sc.x) % 256} :
          /\ exc = "none"
          /\ Loaded = ListGet(obs.pre.ram,
                        (ZeroPagePointer(obs.pre, P) + obs.sc.y) % 65536)

\* the last call ran the second store of a "store" program
StoreStep ==
    /\ obs.sc.kind = "store"
    /\ obs.op[1] = "step"
    /\ obs.op[2] = obs.sc.s + 3

\* the byte the store of a "store" program writes
Stored(m) ==
    CASE LookupTable(obs.op[3])[1] = "stx" -> m.mpu.x
      [] LookupTable(obs.op[3])[1] = "sty" -> m.mpu.y
      [] OTHER -> m.mpu.a

\* C39: a store leaves the PPU, the OAM and the video memory as the write of
\* the register to the effective address alone leaves them: the store makes
\* no read that changes the vblank flag, the write toggle or a buffer
C39_StoreDoesNotRead ==
    StoreStep =>
       \E w \in {Bus_write(obs.pre, StoreAddr(obs.sc), Stored(obs.pre))} :
          /\ exc = w.exc
          /\ ppu = w.ppu
          /\ oam = w.oam
          /\ vram = w.vram

\* addresses probed around a write above the ports: both ends of the
\* address space, the first address above the ports and the vectors
HighProbes == {0, 1, 16416, 32768, 65534, 65535}

\* C40: a write to an address a in 0x4020 .. 0xFFFF changes what a read of
\* any other address returns for no address, and a read of 0xFFFF returns
\* the byte of the store's cell 0xFFFF
C40_NoAliasing ==
    obs.fam = "high" =>
       /\ (obs.op[1] = "write" /\ obs.op[2] \in 16416 .. 65535) =>
             \A b \in HighProbes \ {obs.op[2]} :
                Bus_read(Machine, b).val = Bus_read(obs.pre, b).val
       /\ (obs.op[1] = "read" /\ obs.op[2] = 65535) =>
             ret = ListGet(obs.pre.ram, 65535)

====
